---- MODULE Spec2Model ----
(***************************************************************************)
(* PocketSphinx recognizer channel of the MRCP server (plugin source in     *)
(* src/unnamed/part_000, from line 87 on).  Three threads act on one        *)
(* channel (pocketsphinx_recognizer_t):                                     *)
(*   - the signaling thread calls open, request_process and close;          *)
(*   - the recognition thread runs pocketsphinx_recognizer_run;             *)
(*   - the media thread calls pocketsphinx_stream_write once per frame.     *)
(* Each action below is one step of one thread.  A step is a piece of code  *)
(* that touches the shared channel fields at one place, so that every       *)
(* interleaving of the three threads the code allows is an interleaving of  *)
(* the actions.  Only signalled wake-ups of the condition variable are      *)
(* modelled (no spurious wake-up).                                          *)
(*                                                                         *)
(* The demo recognizer channel (src/unnamed/part_001) is modelled in the    *)
(* same module with variables of its own: Spec and FairSpec are the         *)
(* behaviours of the PocketSphinx channel, DemoSpec and DemoFairSpec those  *)
(* of the demo channel.                                                     *)
(***************************************************************************)
EXTENDS Integers, Sequences, FiniteSets, TLC

\* ---------------------------------------------------------------- bounds
\* Number of MRCP requests the signaling thread hands to the channel.
MaxRequests == 3
\* Configured recognition timeout, counted in frames (15000 ms in the code).
RecognitionFrames == 6
\* Configured partial result timeout, counted in frames (100 ms in the code).
PartialFrames == 2

\* Largest value of the per-request message counters.
MaxCount == 2

\* Number of frames the demo recognizer counts down before it completes a
\* recognition (time_to_complete is set to 5000 ms in the code, 500 frames).
TimeToCompleteFrames == 2

\* Largest recognition timeout threshold, in ms, the timer of
\* pocketsphinx_stream_write is run with on its own.
MaxThreshold == 35
\* Number of frames the timer is run for on its own.
MaxTimerFrames == 6

\* Largest number of items of a string table and largest length of an item.
MaxItems == 3
MaxStrLen == 2

\* ------------------------------------------------------------- constants
\* Duration of one audio frame in ms.
CODEC_FRAME_TIME_BASE == 10

\* Content-ids a client may use in DEFINE-GRAMMAR.
ContentIds == {"g1", "g2"}
\* Non-empty hypotheses the decoder may return from ps_get_hyp.
Hyps == {"h1", "h2"}
\* ps_get_hyp returned NULL or an empty string.
NoHyp == "nohyp"
\* A NULL char pointer (content_id, content_type, grammar_id, last_result).
NoStr == "null"

\* MRCP recognizer methods dispatched by pocketsphinx_request_dispatch.
Methods ==
    {"SET-PARAMS", "GET-PARAMS", "DEFINE-GRAMMAR", "RECOGNIZE",
     "GET-RESULT", "START-INPUT-TIMERS", "STOP"}
\* The methods whose case in the dispatcher is empty.
Unhandled == {"SET-PARAMS", "GET-PARAMS", "GET-RESULT", "START-INPUT-TIMERS"}
\* The methods the client of the model sends: one of the four unhandled
\* methods stands for all of them (they share one path of the dispatcher).
ClientMethods == (Methods \ Unhandled) \cup {"GET-PARAMS"}

\* Content-Type values of a DEFINE-GRAMMAR request, as character sequences:
\* one that contains the marker "jsgf" and one that does not.
ContentTypes ==
    {<<"x", "-", "j", "s", "g", "f">>, <<"j", "s", "g", "-", "x">>}
\* The Content-Type property is absent.
NoType == <<>>
\* The marker pocketsphinx_define_grammar looks for in the Content-Type.
JsgfMarker == <<"j", "s", "g", "f">>
\* Content-Type the plugin sets on a RECOGNITION-COMPLETE with a result.
NlsmlType == <<"n", "l", "s", "m", "l">>

\* An empty message body.
NoBody == <<>>

\* A NULL mrcp_message_t pointer.
NoMsg == [type |-> "none"]

VARIABLES
    \* --- signaling thread
    s_pc,           \* position of the signaling thread
    nreq,           \* number of requests handed to request_process so far
    \* --- pocketsphinx_recognizer_t
    thread,         \* recognizer->thread is non-NULL
    prims,          \* mutex and wait_object were constructed
    mutex,          \* holder of recognizer->mutex
    wake,           \* the recognition thread was signalled while in cond_wait
    request,        \* recognizer->request
    complete_event, \* recognizer->complete_event
    inprogress_recog, \* recognizer->inprogress_recog
    stop_response,  \* recognizer->stop_response
    close_requested, \* recognizer->close_requested
    decoder,        \* recognizer->decoder: "null", "idle" or "utt"
    detector,       \* recognizer->detector: "null", "inactive" or "active"
    det_events,     \* what the detector returned for the frames of the
                    \* recognition, until its completion is stored, as
                    \* detector_recorded records it
    raised,         \* per request, the completion cause the media thread
                    \* raised for its recognition ("none" when not raised)
    grammar_id,     \* recognizer->grammar_id
    grammar_table,  \* keys of recognizer->grammar_table
    files,          \* content-ids whose grammar file exists on disk
    recognition_timeout,    \* recognizer->recognition_timeout
    partial_result_timeout, \* recognizer->partial_result_timeout
    last_result,    \* recognizer->last_result
    \* --- recognition thread
    w_pc,           \* position of the recognition thread
    w_request,      \* local 'request' of pocketsphinx_recognizer_run
    \* --- media thread
    a_pc,           \* position of the media thread in stream_write
    a_event,        \* local 'message' of pocketsphinx_end_of_input
    \* --- what the channel has sent to the server
    sent,           \* messages passed to mrcp_engine_channel_message_send
    open_resp,      \* calls of mrcp_engine_channel_open_respond
    close_resp,     \* number of calls of mrcp_engine_channel_close_respond
    close_recog     \* history: inprogress_recog when close_requested was set

\* State of the demo recognizer channel (src/unnamed/part_001) and of the
\* three threads that act on it: the signaling thread, the consumer task of
\* the engine and the media thread.
VARIABLES
    \* --- signaling thread
    demo_pc,        \* position of the signaling thread
    demo_nreq,      \* number of requests handed to request_process so far
    \* --- consumer task of demo_recog_engine_t
    task_queue,     \* demo_recog_msg_t messages signalled and not yet processed
    task_pc,        \* position of the task thread in the dispatcher
    task_request,   \* 'request' of demo_recog_channel_request_dispatch
    \* --- demo_recog_channel_t
    recog_request,  \* recog_channel->recog_request
    demo_stop_response, \* recog_channel->stop_response
    start_of_input, \* recog_channel->start_of_input
    time_to_complete, \* recog_channel->time_to_complete
    audio_out,      \* recog_channel->audio_out is non-NULL
    \* --- media thread
    write_pc,       \* position of the media thread in demo_recog_stream_write
    write_audio,    \* the frame being written has type MEDIA_FRAME_TYPE_AUDIO
    write_stop,     \* stop_response as read by the test at line 312
    write_request,  \* recog_request as read by the test at line 320
    write_time,     \* time_to_complete as read by the test at line 344
    write_event,    \* local 'message' of demo_recog_stream_write
    \* --- what the channel has sent to the server
    demo_sent,      \* messages passed to mrcp_engine_channel_message_send
    demo_open_resp, \* number of calls of mrcp_engine_channel_open_respond
    demo_close_resp, \* number of calls of mrcp_engine_channel_close_respond
    stop_dispatched \* per request, a STOP was stored while it was recog_request

\* The recognition timer of pocketsphinx_stream_write run on its own, with
\* the configured threshold as an input.
VARIABLES
    timer_threshold, \* recognizer->properties.recognition_timeout, in ms
    timer_elapsed,   \* recognizer->recognition_timeout, in ms
    timer_raised     \* pocketsphinx_end_of_input(RECOGNITION_TIMEOUT) called

\* The variables of the timer run on its own.
timerVars == <<timer_threshold, timer_elapsed, timer_raised>>

\* The string table generator (tests/strtablegen).
VARIABLES
    table,          \* table[] of main: items with a value and a key
    gen_i           \* i of string_table_key_generate, counted from 1

\* The variables of the string table generator.
tableVars == <<table, gen_i>>

\* All variables of the demo recognizer channel.
demoVars ==
    <<demo_pc, demo_nreq, task_queue, task_pc, task_request, recog_request,
      demo_stop_response, start_of_input, time_to_complete, audio_out,
      write_pc, write_audio, write_stop, write_request, write_time,
      write_event, demo_sent,
      demo_open_resp, demo_close_resp, stop_dispatched>>

vars ==
    <<s_pc, nreq, thread, prims, mutex, wake, request, complete_event,
      inprogress_recog, stop_response, close_requested, decoder, detector,
      det_events, raised, grammar_id, grammar_table, files,
      recognition_timeout, partial_result_timeout, last_result, w_pc,
      w_request, a_pc, a_event, sent, open_resp, close_resp, close_recog,
      demo_pc,
      demo_nreq, task_queue, task_pc, task_request, recog_request,
      demo_stop_response, start_of_input, time_to_complete, audio_out,
      write_pc, write_audio, write_stop, write_request, write_time,
      write_event, demo_sent,
      demo_open_resp, demo_close_resp, stop_dispatched,
      timer_threshold, timer_elapsed, timer_raised,
      table, gen_i>>

\* Fields of the channel that only the recognition and media thread touch.
recogVars ==
    <<inprogress_recog, stop_response, decoder, detector, det_events, raised,
      grammar_id, grammar_table, files, recognition_timeout,
      partial_result_timeout, last_result>>

\* Variables of the signaling thread.
sigVars ==
    <<s_pc, nreq, thread, prims, close_requested, close_resp, close_recog>>

\* Variables of the media thread.
audioVars == <<a_pc, a_event>>

\* ------------------------------------------------------------- messages
\* mrcp_message_t of a request as the server hands it to the channel.
\*   hdr   : the message has a generic header (mrcp_generic_header_get)
\*   cid   : Content-Id, NoStr when the property is absent
\*   body  : Content-Length is present (the request carries a grammar)
\*   ctype : Content-Type, NoType when the property is absent
Request(id, method, hdr, cid, body, ctype) ==
    [type |-> "request", id |-> id, method |-> method, hdr |-> hdr,
     cid |-> cid, body |-> body, ctype |-> ctype]

\* The requests a client can send with identifier id.
Requests(id) ==
    {Request(id, m, FALSE, NoStr, FALSE, NoType) : m \in ClientMethods}
    \cup {Request(id, "DEFINE-GRAMMAR", TRUE, c, FALSE, NoType) :
            c \in ContentIds \cup {NoStr}}
    \cup {Request(id, "DEFINE-GRAMMAR", TRUE, c, TRUE, t) :
            c \in ContentIds \cup {NoStr}, t \in ContentTypes \cup {NoType}}

\* mrcp_response_create: status SUCCESS and state COMPLETE until changed.
mrcp_response_create(req) ==
    [type |-> "response", id |-> req.id, method |-> req.method,
     status |-> "SUCCESS", state |-> "COMPLETE"]

\* mrcp_event_create plus the fields the plugin sets on the event.
mrcp_event_create(req, name, state, cause) ==
    [type |-> "event", id |-> req.id, name |-> name, state |-> state,
     cause |-> cause, ctype |-> NoType, body |-> NoBody]

\* What the server has seen of mrcp_engine_channel_message_send: for every
\* request the number of responses and of START-OF-INPUT and
\* RECOGNITION-COMPLETE events sent for it (counted up to MaxCount), the
\* number of STOP responses sent in place of the completion event of the
\* recognition of that request, and the last message sent with the thread
\* that sent it.
NothingSent ==
    [responses |-> [id \in 1..MaxRequests |-> 0],
     soi |-> [id \in 1..MaxRequests |-> 0],
     rc |-> [id \in 1..MaxRequests |-> 0],
     stopped |-> [id \in 1..MaxRequests |-> 0],
     last |-> NoMsg, by |-> "none"]

\* Counters stop at MaxCount: MaxCount stands for "MaxCount or more".
Count(n) == IF n < MaxCount THEN n + 1 ELSE n

\* mrcp_engine_channel_message_send called by thread 'by'.
Send(log, msg, by) ==
    [responses |-> IF msg.type # "event"
                   THEN [log.responses EXCEPT ![msg.id] = Count(@)]
                   ELSE log.responses,
     soi |-> IF msg.type = "event" /\ msg.name = "START-OF-INPUT"
             THEN [log.soi EXCEPT ![msg.id] = Count(@)]
             ELSE log.soi,
     rc |-> IF msg.type = "event" /\ msg.name = "RECOGNITION-COMPLETE"
            THEN [log.rc EXCEPT ![msg.id] = Count(@)]
            ELSE log.rc,
     stopped |-> log.stopped,
     last |-> msg, by |-> by]

\* The sequence of detector results of an utterance with one stretch of
\* speech: none, none, activity, none, inactivity.
ActivityThenInactivity ==
    <<"none", "none", "activity", "none", "inactivity">>

\* det_events after the detector returned det: the results are recorded as
\* long as they are a beginning of ActivityThenInactivity, any other
\* sequence is recorded as <<"other">>.
detector_recorded(events, det) ==
    LET e == Append(events, det)
    IN  IF /\ Len(e) <= Len(ActivityThenInactivity)
           /\ \A i \in 1..Len(e) : e[i] = ActivityThenInactivity[i]
        THEN e
        ELSE <<"other">>

\* mrcp_engine_channel_message_send of the pending STOP response in place of
\* the completion event of the recognition of request 'recog'.
SendStop(log, msg, by, recog) ==
    [Send(log, msg, by) EXCEPT !.stopped[recog.id] = Count(@)]

\* apr_thread_cond_signal: wakes the recognition thread if it is blocked in
\* apr_thread_cond_wait, and is lost otherwise.
Signal == IF w_pc \in {"waiting", "close_waiting"} THEN TRUE ELSE wake

\* The recognition thread died on a NULL mutex (process fault).
Faulted == w_pc = "fault"

\* ----------------------------------------------------------------- Init
\* State of the PocketSphinx channel after
\* pocketsphinx_engine_recognizer_create.
pocketsphinx_engine_recognizer_create ==
    /\ s_pc = "created"
    /\ nreq = 0
    /\ thread = FALSE
    /\ prims = FALSE
    /\ mutex = "free"
    /\ wake = FALSE
    /\ request = NoMsg
    /\ complete_event = NoMsg
    /\ inprogress_recog = NoMsg
    /\ stop_response = NoMsg
    /\ close_requested = FALSE
    /\ decoder = "null"
    /\ detector = "null"
    /\ det_events = <<>>
    /\ raised = [id \in 1..MaxRequests |-> "none"]
    /\ grammar_id = NoStr
    /\ grammar_table = {}
    /\ files = {}
    /\ recognition_timeout = 0
    /\ partial_result_timeout = 0
    /\ last_result = NoStr
    /\ w_pc = "none"
    /\ w_request = NoMsg
    /\ a_pc = "idle"
    /\ a_event = NoMsg
    /\ sent = NothingSent
    /\ open_resp = <<>>
    /\ close_resp = 0
    /\ close_recog = NoMsg

\* time_to_complete as demo_recog_channel_recognize sets it (line 231).
TimeToComplete == TimeToCompleteFrames * CODEC_FRAME_TIME_BASE

\* State of the demo channel after demo_recog_engine_channel_create: the
\* channel is allocated with apr_palloc and recog_request, stop_response and
\* audio_out are set to NULL; start_of_input and time_to_complete are left
\* uninitialised and hold any value.
demo_recog_engine_channel_create ==
    /\ demo_pc = "created"
    /\ demo_nreq = 0
    /\ task_queue = <<>>
    /\ task_pc = "idle"
    /\ task_request = NoMsg
    /\ recog_request = NoMsg
    /\ demo_stop_response = NoMsg
    /\ start_of_input \in BOOLEAN
    /\ time_to_complete \in {0, TimeToComplete}
    /\ audio_out = FALSE
    /\ write_pc = "idle"
    /\ write_audio = FALSE
    /\ write_stop = NoMsg
    /\ write_request = NoMsg
    /\ write_time = 0
    /\ write_event = NoMsg
    /\ demo_sent = NothingSent
    /\ demo_open_resp = 0
    /\ demo_close_resp = 0
    /\ stop_dispatched = [id \in 1..MaxRequests |-> FALSE]

\* The timer as the channel holds it after creation: the model's threshold
\* (pocketsphinx_properties_load) and a counter of zero.
recognition_timer_create ==
    /\ timer_threshold = RecognitionFrames * CODEC_FRAME_TIME_BASE
    /\ timer_elapsed = 0
    /\ timer_raised = FALSE

\* The string table generator before it has read a table.
string_table_empty ==
    /\ table = <<>>
    /\ gen_i = 1

\* The PocketSphinx channel is the one in use; the demo channel is created
\* and never opened.
Init ==
    /\ pocketsphinx_engine_recognizer_create
    /\ demo_recog_engine_channel_create
    /\ start_of_input = FALSE
    /\ time_to_complete = 0
    /\ recognition_timer_create
    /\ string_table_empty

\* The demo channel is the one in use; the PocketSphinx channel is created
\* and never opened.
DemoInit ==
    /\ demo_recog_engine_channel_create
    /\ pocketsphinx_engine_recognizer_create
    /\ recognition_timer_create
    /\ string_table_empty

\* ------------------------------------------------------ signaling thread
\* The client has a response (final or in-progress) to request id.
Answered(id) == sent.responses[id] > 0

\* The channel-open response was sent and reported success.
OpenSucceeded == \E i \in 1..Len(open_resp) : open_resp[i].status

\* The server hands a request to the channel only after a successful open and
\* only when every earlier request has its response (one request in flight).
MayRequest ==
    /\ OpenSucceeded
    /\ nreq < MaxRequests
    /\ \A id \in 1..nreq : Answered(id)

\* Mutant of open_responds: the open call sends a failed channel-open
\* response although the thread was launched.
open_responds_always(thread_ok) == TRUE

\* pocketsphinx_recognizer_open sends the (failed) channel-open response
\* itself exactly when the thread could not be launched.
open_responds(thread_ok) == ~thread_ok

\* pocketsphinx_recognizer_open: creates the mutex and the condition
\* variable (results ignored) and launches the recognition thread.
\*   prims_ok  : apr_thread_mutex_create and apr_thread_cond_create succeeded
\*   thread_ok : apr_thread_create succeeded
pocketsphinx_recognizer_open ==
    /\ s_pc = "created"
    /\ \E prims_ok \in BOOLEAN, thread_ok \in BOOLEAN :
         /\ IF thread_ok
            THEN /\ thread' = TRUE
                 /\ prims' = prims_ok
                 /\ w_pc' = "start"
            ELSE /\ thread' = FALSE
                 /\ prims' = FALSE
                 /\ w_pc' = w_pc
         /\ open_resp' = IF open_responds(thread_ok)
                         THEN Append(open_resp,
                                     [status |-> FALSE, by |-> "sig"])
                         ELSE open_resp
    /\ s_pc' = "open"
    /\ UNCHANGED <<nreq, mutex, wake, request, complete_event, close_requested,
                   close_resp, w_request, sent>>
    /\ UNCHANGED recogVars
    /\ UNCHANGED audioVars
    /\ UNCHANGED demoVars
    /\ UNCHANGED timerVars
    /\ UNCHANGED tableVars
    /\ UNCHANGED close_recog

\* pocketsphinx_recognizer_request_process, apr_thread_mutex_lock.
pocketsphinx_recognizer_request_process_lock ==
    /\ s_pc = "open"
    /\ thread
    /\ prims
    /\ MayRequest
    /\ mutex = "free"
    /\ mutex' = "sig"
    /\ s_pc' = "req_locked"
    /\ UNCHANGED <<nreq, thread, prims, wake, request, complete_event,
                   close_requested, close_resp, w_pc, w_request, sent, open_resp>>
    /\ UNCHANGED recogVars
    /\ UNCHANGED audioVars
    /\ UNCHANGED demoVars
    /\ UNCHANGED timerVars
    /\ UNCHANGED tableVars
    /\ UNCHANGED close_recog

\* pocketsphinx_recognizer_request_process: store the request, signal the
\* recognition thread and unlock.
pocketsphinx_recognizer_request_process ==
    /\ s_pc = "req_locked"
    /\ \E r \in Requests(nreq + 1) : request' = r
    /\ nreq' = nreq + 1
    /\ wake' = Signal
    /\ mutex' = "free"
    /\ s_pc' = "open"
    /\ UNCHANGED <<thread, prims, complete_event, close_requested, close_resp,
                   w_pc, w_request, sent, open_resp>>
    /\ UNCHANGED recogVars
    /\ UNCHANGED audioVars
    /\ UNCHANGED demoVars
    /\ UNCHANGED timerVars
    /\ UNCHANGED tableVars
    /\ UNCHANGED close_recog

\* pocketsphinx_recognizer_close when no recognition thread was launched:
\* the close response is sent at once.
pocketsphinx_recognizer_close_nothread ==
    /\ s_pc = "open"
    /\ open_resp # <<>>
    /\ ~thread
    /\ close_resp' = close_resp + 1
    /\ s_pc' = "closed"
    /\ UNCHANGED <<nreq, thread, prims, mutex, wake, request, complete_event,
                   close_requested, w_pc, w_request, sent, open_resp>>
    /\ UNCHANGED recogVars
    /\ UNCHANGED audioVars
    /\ UNCHANGED demoVars
    /\ UNCHANGED timerVars
    /\ UNCHANGED tableVars
    /\ UNCHANGED close_recog

\* pocketsphinx_recognizer_close, apr_thread_mutex_lock.
pocketsphinx_recognizer_close_lock ==
    /\ s_pc = "open"
    /\ open_resp # <<>>
    /\ thread
    /\ prims
    /\ mutex = "free"
    /\ mutex' = "sig"
    /\ s_pc' = "close_locked"
    /\ UNCHANGED <<nreq, thread, prims, wake, request, complete_event,
                   close_requested, close_resp, w_pc, w_request, sent, open_resp>>
    /\ UNCHANGED recogVars
    /\ UNCHANGED audioVars
    /\ UNCHANGED demoVars
    /\ UNCHANGED timerVars
    /\ UNCHANGED tableVars
    /\ UNCHANGED close_recog

\* pocketsphinx_recognizer_close: set close_requested, signal and unlock.
\* close_recog records the recognition in progress at that moment.
pocketsphinx_recognizer_close_signal ==
    /\ s_pc = "close_locked"
    /\ close_requested' = TRUE
    /\ wake' = Signal
    /\ mutex' = "free"
    /\ s_pc' = "joining"
    /\ UNCHANGED <<nreq, thread, prims, request, complete_event, close_resp,
                   w_pc, w_request, sent, open_resp>>
    /\ UNCHANGED recogVars
    /\ UNCHANGED audioVars
    /\ UNCHANGED demoVars
    /\ UNCHANGED timerVars
    /\ UNCHANGED tableVars
    /\ close_recog' = inprogress_recog

\* pocketsphinx_recognizer_close: apr_thread_join returns once the recognition
\* thread has exited; the primitives are destroyed and the close response sent.
pocketsphinx_recognizer_close ==
    /\ s_pc = "joining"
    /\ w_pc = "done"
    /\ thread' = FALSE
    /\ prims' = FALSE
    /\ close_resp' = close_resp + 1
    /\ s_pc' = "closed"
    /\ UNCHANGED <<nreq, mutex, wake, request, complete_event, close_requested,
                   w_pc, w_request, sent, open_resp>>
    /\ UNCHANGED recogVars
    /\ UNCHANGED audioVars
    /\ UNCHANGED demoVars
    /\ UNCHANGED timerVars
    /\ UNCHANGED tableVars
    /\ UNCHANGED close_recog

\* ---------------------------------------------------- recognition thread
\* pocketsphinx_recognizer_run up to the loop: load the properties and send
\* the channel-open response.
pocketsphinx_recognizer_run_start ==
    /\ w_pc = "start"
    /\ open_resp' = Append(open_resp, [status |-> TRUE, by |-> "worker"])
    /\ w_pc' = "lock"
    /\ UNCHANGED <<mutex, wake, request, complete_event, w_request, sent>>
    /\ UNCHANGED sigVars
    /\ UNCHANGED recogVars
    /\ UNCHANGED audioVars
    /\ UNCHANGED demoVars
    /\ UNCHANGED timerVars
    /\ UNCHANGED tableVars

\* apr_thread_mutex_lock at the top of the loop.  Locking a mutex that was
\* never constructed is a fault that ends the process.
pocketsphinx_recognizer_run_lock ==
    /\ w_pc = "lock"
    /\ IF prims
       THEN /\ mutex = "free"
            /\ mutex' = "worker"
            /\ w_pc' = "condwait"
       ELSE /\ mutex' = mutex
            /\ w_pc' = "fault"
    /\ UNCHANGED <<wake, request, complete_event, w_request, sent, open_resp>>
    /\ UNCHANGED sigVars
    /\ UNCHANGED recogVars
    /\ UNCHANGED audioVars
    /\ UNCHANGED demoVars
    /\ UNCHANGED timerVars
    /\ UNCHANGED tableVars

\* apr_thread_cond_wait: release the mutex and block.  No condition is tested
\* before blocking.
pocketsphinx_recognizer_run_wait ==
    /\ w_pc = "condwait"
    /\ mutex' = "free"
    /\ wake' = FALSE
    /\ w_pc' = "waiting"
    /\ UNCHANGED <<request, complete_event, w_request, sent, open_resp>>
    /\ UNCHANGED sigVars
    /\ UNCHANGED recogVars
    /\ UNCHANGED audioVars
    /\ UNCHANGED demoVars
    /\ UNCHANGED timerVars
    /\ UNCHANGED tableVars

\* Mutant of pocketsphinx_recognizer_run_wake: the mutex is not unlocked
\* after the wait.
run_wake_keeps_mutex ==
    /\ w_pc = "waiting"
    /\ wake
    /\ mutex = "free"
    /\ wake' = FALSE
    /\ mutex' = "worker"
    /\ w_pc' = "chk_req"
    /\ UNCHANGED <<request, complete_event, w_request, sent, open_resp>>
    /\ UNCHANGED sigVars
    /\ UNCHANGED recogVars
    /\ UNCHANGED audioVars
    /\ UNCHANGED demoVars
    /\ UNCHANGED timerVars
    /\ UNCHANGED tableVars

\* apr_thread_cond_wait returns after a signal (the mutex is re-acquired) and
\* the mutex is unlocked.
pocketsphinx_recognizer_run_wake ==
    /\ w_pc = "waiting"
    /\ wake
    /\ mutex = "free"
    /\ wake' = FALSE
    /\ w_pc' = "chk_req"
    /\ UNCHANGED <<mutex, request, complete_event, w_request, sent, open_resp>>
    /\ UNCHANGED sigVars
    /\ UNCHANGED recogVars
    /\ UNCHANGED audioVars
    /\ UNCHANGED demoVars
    /\ UNCHANGED timerVars
    /\ UNCHANGED tableVars

\* if(recognizer->request): take the pending request into the local.
pocketsphinx_recognizer_run_check_request ==
    /\ w_pc = "chk_req"
    /\ IF request # NoMsg
       THEN /\ w_request' = request
            /\ w_pc' = "clr_req"
       ELSE /\ w_request' = w_request
            /\ w_pc' = "chk_evt"
    /\ UNCHANGED <<mutex, wake, request, complete_event, sent, open_resp>>
    /\ UNCHANGED sigVars
    /\ UNCHANGED recogVars
    /\ UNCHANGED audioVars
    /\ UNCHANGED demoVars
    /\ UNCHANGED timerVars
    /\ UNCHANGED tableVars

\* recognizer->request = NULL, written without the mutex.
pocketsphinx_recognizer_run_clear_request ==
    /\ w_pc = "clr_req"
    /\ request' = NoMsg
    /\ w_pc' = "dispatch"
    /\ UNCHANGED <<mutex, wake, complete_event, w_request, sent, open_resp>>
    /\ UNCHANGED sigVars
    /\ UNCHANGED recogVars
    /\ UNCHANGED audioVars
    /\ UNCHANGED demoVars
    /\ UNCHANGED timerVars
    /\ UNCHANGED tableVars

\* Mutant of strstr: only the first character of the needle is looked for.
strstr_first_char(haystack, needle) ==
    \E i \in 1..Len(haystack) : haystack[i] = needle[1]

\* strstr(haystack, needle) # NULL on character sequences.
strstr(haystack, needle) ==
    \E i \in 0..(Len(haystack) - Len(needle)) :
        \A j \in 1..Len(needle) : haystack[i + j] = needle[j]

\* pocketsphinx_decoder_init, the decoder afterwards: ps_init creates it when
\* there is none, ps_reinit keeps the existing one; a failure leaves it as is.
pocketsphinx_decoder_init(init_ok) ==
    IF init_ok /\ decoder = "null" THEN "idle" ELSE decoder

\* pocketsphinx_decoder_init, the detector afterwards: created on the first
\* successful initialisation.
detector_after_init(init_ok) ==
    IF init_ok /\ detector = "null" THEN "inactive" ELSE detector

\* Outcome of pocketsphinx_define_grammar: what it returns, the status it
\* leaves in the response, and the registry, files and decoder afterwards.
\*   file_ok : apr_file_open of the grammar file succeeded
\*   init_ok : pocketsphinx_decoder_init succeeded
DefineOutcome(processed, status, fs, tbl, gid, dec, det) ==
    [processed |-> processed, status |-> status, files |-> fs,
     grammar_table |-> tbl, grammar_id |-> gid, decoder |-> dec,
     detector |-> det]

\* pocketsphinx_define_grammar left everything untouched and returned FALSE.
DefineFailed(status) ==
    DefineOutcome(FALSE, status, files, grammar_table, grammar_id, decoder,
                  detector)

\* The content-id of the request, NULL when the property is absent.
content_id_of(req) == req.cid

\* Mutant of pocketsphinx_define_grammar: an unload removes the artifact
\* and leaves the mapping in the registry.
define_grammar_unload_keeps_entry(req, file_ok, init_ok) ==
    IF ~req.hdr
    THEN DefineFailed("SUCCESS")
    ELSE IF content_id_of(req) = NoStr
    THEN DefineFailed("MISSING_PARAM")
    ELSE IF req.body
    THEN IF req.ctype = NoType
         THEN DefineFailed("MISSING_PARAM")
         ELSE IF ~strstr(req.ctype, JsgfMarker)
         THEN DefineFailed("UNSUPPORTED_PARAM_VALUE")
         ELSE IF ~file_ok
         THEN DefineFailed("METHOD_FAILED")
         ELSE IF init_ok
         THEN DefineOutcome(TRUE, "SUCCESS", files \cup {req.cid},
                            grammar_table \cup {req.cid}, req.cid,
                            pocketsphinx_decoder_init(TRUE),
                            detector_after_init(TRUE))
         ELSE DefineOutcome(FALSE, "METHOD_FAILED", files \ {req.cid},
                            grammar_table, grammar_id,
                            pocketsphinx_decoder_init(FALSE),
                            detector_after_init(FALSE))
    ELSE DefineOutcome(TRUE, "SUCCESS", files \ {req.cid}, grammar_table,
                       grammar_id, decoder, detector)

\* Mutant of pocketsphinx_define_grammar: the request is answered with
\* success and nothing is recorded.
define_grammar_unrecorded(req, file_ok, init_ok) ==
    DefineOutcome(TRUE, "SUCCESS", files, grammar_table, grammar_id, decoder,
                  detector)

\* pocketsphinx_define_grammar.  The registry is held as the set of its
\* keys: apr_table_setn replaces the entry of a key that is present, and the
\* file path of an entry is a function of its key.
pocketsphinx_define_grammar(req, file_ok, init_ok) ==
    IF ~req.hdr
    THEN DefineFailed("SUCCESS")
    ELSE IF content_id_of(req) = NoStr
    THEN DefineFailed("MISSING_PARAM")
    ELSE IF req.body
    THEN IF req.ctype = NoType
         THEN DefineFailed("MISSING_PARAM")
         ELSE IF ~strstr(req.ctype, JsgfMarker)
         THEN DefineFailed("UNSUPPORTED_PARAM_VALUE")
         ELSE IF ~file_ok
         THEN DefineFailed("METHOD_FAILED")
         ELSE IF init_ok
         THEN DefineOutcome(TRUE, "SUCCESS", files \cup {req.cid},
                            grammar_table \cup {req.cid}, req.cid,
                            pocketsphinx_decoder_init(TRUE),
                            detector_after_init(TRUE))
         ELSE DefineOutcome(FALSE, "METHOD_FAILED", files \ {req.cid},
                            grammar_table, grammar_id,
                            pocketsphinx_decoder_init(FALSE),
                            detector_after_init(FALSE))
    ELSE IF req.cid \in grammar_table
         THEN DefineOutcome(TRUE, "SUCCESS", files \ {req.cid},
                            grammar_table \ {req.cid}, grammar_id, decoder,
                            detector)
         ELSE DefineOutcome(TRUE, "SUCCESS", files, grammar_table, grammar_id,
                            decoder, detector)

\* Mutant of dispatch_sends: the dispatcher sends the response whatever the
\* handler returned.
dispatch_sends_always(processed) == TRUE

\* pocketsphinx_request_dispatch: the response is sent by the dispatcher
\* exactly when the handler did not process the request.
dispatch_sends(processed) == processed = FALSE

\* pocketsphinx_request_dispatch for DEFINE-GRAMMAR.  The handler sends the
\* response itself when it succeeds, the dispatcher sends it otherwise.
pocketsphinx_request_dispatch_define ==
    /\ w_pc = "dispatch"
    /\ w_request.method = "DEFINE-GRAMMAR"
    /\ \E file_ok \in BOOLEAN, init_ok \in BOOLEAN :
         LET out == pocketsphinx_define_grammar(w_request, file_ok, init_ok)
             response == [mrcp_response_create(w_request)
                             EXCEPT !.status = out.status]
             sent1 == IF out.processed THEN Send(sent, response, "worker")
                      ELSE sent
         IN  /\ files' = out.files
             /\ grammar_table' = out.grammar_table
             /\ grammar_id' = out.grammar_id
             /\ decoder' = out.decoder
             /\ detector' = out.detector
             /\ sent' = IF dispatch_sends(out.processed)
                        THEN Send(sent1, response, "worker")
                        ELSE sent1
    /\ w_pc' = "chk_evt"
    /\ w_request' = NoMsg
    /\ UNCHANGED <<mutex, wake, request, complete_event, open_resp,
                   inprogress_recog, stop_response, recognition_timeout,
                   partial_result_timeout, last_result, det_events, raised>>
    /\ UNCHANGED sigVars
    /\ UNCHANGED audioVars
    /\ UNCHANGED demoVars
    /\ UNCHANGED timerVars
    /\ UNCHANGED tableVars

\* pocketsphinx_request_dispatch for the methods without a handler
\* (SET-PARAMS, GET-PARAMS, GET-RESULT, START-INPUT-TIMERS): processed stays
\* FALSE and the response is sent as created.
pocketsphinx_request_dispatch ==
    /\ w_pc = "dispatch"
    /\ w_request.method \in Unhandled
    /\ sent' = IF dispatch_sends(FALSE)
               THEN Send(sent, mrcp_response_create(w_request), "worker")
               ELSE sent
    /\ w_pc' = "chk_evt"
    /\ w_request' = NoMsg
    /\ UNCHANGED <<mutex, wake, request, complete_event, open_resp>>
    /\ UNCHANGED sigVars
    /\ UNCHANGED recogVars
    /\ UNCHANGED audioVars
    /\ UNCHANGED demoVars
    /\ UNCHANGED timerVars
    /\ UNCHANGED tableVars

\* Mutant of stop_deferred: the STOP response is stored whether or not a
\* recognition is in progress.
stop_deferred_always == TRUE

\* pocketsphinx_stop: the STOP response is deferred while a recognition is
\* in progress.
stop_deferred == inprogress_recog # NoMsg

\* pocketsphinx_request_dispatch for STOP: pocketsphinx_stop stores the
\* response or sends it at once, and returns TRUE either way.
pocketsphinx_stop ==
    /\ w_pc = "dispatch"
    /\ w_request.method = "STOP"
    /\ LET response == mrcp_response_create(w_request)
           sent1 == IF stop_deferred THEN sent
                    ELSE Send(sent, response, "worker")
       IN  /\ stop_response' = IF stop_deferred THEN response ELSE stop_response
           /\ sent' = IF dispatch_sends(TRUE)
                      THEN Send(sent1, response, "worker")
                      ELSE sent1
    /\ w_pc' = "chk_evt"
    /\ w_request' = NoMsg
    /\ UNCHANGED <<mutex, wake, request, complete_event, open_resp,
                   inprogress_recog, decoder, detector, det_events, raised,
                   grammar_id, grammar_table, files, recognition_timeout,
                   partial_result_timeout, last_result>>
    /\ UNCHANGED sigVars
    /\ UNCHANGED audioVars
    /\ UNCHANGED demoVars
    /\ UNCHANGED timerVars
    /\ UNCHANGED tableVars

\* pocketsphinx_recognize, first part: without a decoder, or when
\* ps_start_utt fails, the request fails and the dispatcher sends the
\* response; otherwise the utterance is started.
pocketsphinx_recognize_start ==
    /\ w_pc = "dispatch"
    /\ w_request.method = "RECOGNIZE"
    /\ \E start_ok \in BOOLEAN :
         IF decoder = "null" \/ ~start_ok
         THEN /\ sent' = IF dispatch_sends(FALSE)
                         THEN Send(sent,
                                   [mrcp_response_create(w_request)
                                       EXCEPT !.status = "METHOD_FAILED"],
                                   "worker")
                         ELSE sent
              /\ decoder' = decoder
              /\ w_request' = NoMsg
              /\ w_pc' = "chk_evt"
         ELSE /\ sent' = sent
              /\ decoder' = "utt"
              /\ w_request' = w_request
              /\ w_pc' = "recog_respond"
    /\ UNCHANGED <<mutex, wake, request, complete_event, open_resp,
                   inprogress_recog, stop_response, detector, det_events,
                   raised, grammar_id, grammar_table, files,
                   recognition_timeout, partial_result_timeout, last_result>>
    /\ UNCHANGED sigVars
    /\ UNCHANGED audioVars
    /\ UNCHANGED demoVars
    /\ UNCHANGED timerVars
    /\ UNCHANGED tableVars

\* pocketsphinx_recognize, second part: send the in-progress response.
pocketsphinx_recognize_respond ==
    /\ w_pc = "recog_respond"
    /\ sent' = Send(sent,
                    [mrcp_response_create(w_request)
                        EXCEPT !.state = "INPROGRESS"],
                    "worker")
    /\ w_pc' = "recog_reset"
    /\ UNCHANGED <<mutex, wake, request, complete_event, w_request, open_resp>>
    /\ UNCHANGED sigVars
    /\ UNCHANGED recogVars
    /\ UNCHANGED audioVars
    /\ UNCHANGED demoVars
    /\ UNCHANGED timerVars
    /\ UNCHANGED tableVars

\* pocketsphinx_recognize, third part: reset the detector, the timers, the
\* last result and the pending completion.
pocketsphinx_recognize_reset ==
    /\ w_pc = "recog_reset"
    /\ detector' = "inactive"
    /\ det_events' = <<>>
    /\ recognition_timeout' = 0
    /\ partial_result_timeout' = 0
    /\ last_result' = NoStr
    /\ complete_event' = NoMsg
    /\ w_pc' = "recog_record"
    /\ UNCHANGED <<mutex, wake, request, sent, open_resp, w_request, raised,
                   inprogress_recog, stop_response, decoder, grammar_id,
                   grammar_table, files>>
    /\ UNCHANGED sigVars
    /\ UNCHANGED audioVars
    /\ UNCHANGED demoVars
    /\ UNCHANGED timerVars
    /\ UNCHANGED tableVars

\* pocketsphinx_recognize, last part: record the request as the in-progress
\* recognition.  The handler returns TRUE.
pocketsphinx_recognize ==
    /\ w_pc = "recog_record"
    /\ inprogress_recog' = w_request
    /\ w_request' = NoMsg
    /\ w_pc' = "chk_evt"
    /\ UNCHANGED <<mutex, wake, request, complete_event, sent, open_resp,
                   stop_response, decoder, detector, det_events, raised,
                   grammar_id, grammar_table, files, recognition_timeout,
                   partial_result_timeout, last_result>>
    /\ UNCHANGED sigVars
    /\ UNCHANGED audioVars
    /\ UNCHANGED demoVars
    /\ UNCHANGED timerVars
    /\ UNCHANGED tableVars

\* The result document pocketsphinx_recognition_complete formats from the
\* active grammar id, the fixed confidence and the hypothesis.
ResultDocument(gid, hyp) == <<gid, 99, hyp>>

\* ps_end_utt on the decoder.
ps_end_utt(dec) == IF dec = "utt" THEN "idle" ELSE dec

\* pocketsphinx_recognition_complete: the deferred STOP response is sent in
\* place of the event unless the channel is being closed.
stop_response_sent == close_requested = FALSE

\* Mutant of completed_event: the event is sent as it was raised.
completed_event_as_raised(ev, hyp) == ev

\* The RECOGNITION-COMPLETE event as pocketsphinx_recognition_complete sends
\* it: a success with a hypothesis gets the result document, a success
\* without one becomes a no-match, other causes are sent as raised.
\*   hyp : what ps_get_hyp returns for the finished utterance
completed_event(ev, hyp) ==
    IF ev.cause = "success"
    THEN IF hyp # NoHyp
         THEN [ev EXCEPT !.body = ResultDocument(grammar_id, hyp),
                         !.ctype = NlsmlType]
         ELSE [ev EXCEPT !.cause = "no-match"]
    ELSE ev

\* pocketsphinx_recognition_complete(recognizer, ev) as a step of the
\* recognition thread; it leaves the completion-event slot as it is.
pocketsphinx_recognition_complete(ev, hyp) ==
    IF inprogress_recog = NoMsg
    THEN \* false event
         /\ UNCHANGED <<inprogress_recog, decoder, stop_response, last_result,
                        sent>>
    ELSE /\ inprogress_recog' = NoMsg
         /\ decoder' = ps_end_utt(decoder)
         /\ IF stop_response # NoMsg
            THEN /\ stop_response' = NoMsg
                 /\ sent' = IF stop_response_sent
                            THEN SendStop(sent, stop_response, "worker",
                                          inprogress_recog)
                            ELSE sent
                 /\ last_result' = last_result
            ELSE /\ stop_response' = stop_response
                 /\ last_result' = IF ev.cause = "success" /\ hyp # NoHyp
                                   THEN hyp ELSE last_result
                 /\ sent' = Send(sent, completed_event(ev, hyp), "worker")

\* if(recognizer->complete_event) in the loop: handle the pending completion.
pocketsphinx_recognizer_run_complete ==
    /\ w_pc = "chk_evt"
    /\ IF complete_event # NoMsg
       THEN \E hyp \in Hyps \cup {NoHyp} :
                pocketsphinx_recognition_complete(complete_event, hyp)
       ELSE UNCHANGED <<inprogress_recog, decoder, stop_response, last_result,
                        sent>>
    /\ w_pc' = "chk_close"
    /\ UNCHANGED <<mutex, wake, request, complete_event, w_request, open_resp,
                   detector, det_events, raised, grammar_id, grammar_table,
                   files, recognition_timeout, partial_result_timeout>>
    /\ UNCHANGED sigVars
    /\ UNCHANGED audioVars
    /\ UNCHANGED demoVars
    /\ UNCHANGED timerVars
    /\ UNCHANGED tableVars

\* while(recognizer->close_requested == FALSE), and after the loop
\* if(recognizer->inprogress_recog).
pocketsphinx_recognizer_run_check_close ==
    /\ w_pc = "chk_close"
    /\ w_pc' = IF close_requested = FALSE THEN "lock"
               ELSE IF inprogress_recog # NoMsg THEN "close_lock"
               ELSE "cleanup"
    /\ UNCHANGED <<mutex, wake, request, complete_event, w_request, sent,
                   open_resp>>
    /\ UNCHANGED sigVars
    /\ UNCHANGED recogVars
    /\ UNCHANGED audioVars
    /\ UNCHANGED demoVars
    /\ UNCHANGED timerVars
    /\ UNCHANGED tableVars

\* Close sequence with a recognition still active: lock the mutex and store
\* the in-progress request as the pending STOP response.
pocketsphinx_recognizer_run_close_lock ==
    /\ w_pc = "close_lock"
    /\ mutex = "free"
    /\ mutex' = "worker"
    /\ stop_response' = inprogress_recog
    /\ w_pc' = "close_condwait"
    /\ UNCHANGED <<wake, request, complete_event, w_request, sent, open_resp,
                   inprogress_recog, decoder, detector, det_events, raised,
                   grammar_id, grammar_table, files, recognition_timeout,
                   partial_result_timeout, last_result>>
    /\ UNCHANGED sigVars
    /\ UNCHANGED audioVars
    /\ UNCHANGED demoVars
    /\ UNCHANGED timerVars
    /\ UNCHANGED tableVars

\* Close sequence: apr_thread_cond_wait releases the mutex and blocks.
pocketsphinx_recognizer_run_close_wait ==
    /\ w_pc = "close_condwait"
    /\ mutex' = "free"
    /\ wake' = FALSE
    /\ w_pc' = "close_waiting"
    /\ UNCHANGED <<request, complete_event, w_request, sent, open_resp>>
    /\ UNCHANGED sigVars
    /\ UNCHANGED recogVars
    /\ UNCHANGED audioVars
    /\ UNCHANGED demoVars
    /\ UNCHANGED timerVars
    /\ UNCHANGED tableVars

\* Mutant of pocketsphinx_recognizer_run_close_complete: the close sequence
\* goes on to the cleanup without handling the pending completion.
run_close_complete_unhandled ==
    /\ w_pc = "close_waiting"
    /\ wake
    /\ mutex = "free"
    /\ wake' = FALSE
    /\ w_pc' = "cleanup"
    /\ UNCHANGED <<mutex, request, complete_event, w_request, sent, open_resp>>
    /\ UNCHANGED sigVars
    /\ UNCHANGED recogVars
    /\ UNCHANGED audioVars
    /\ UNCHANGED demoVars
    /\ UNCHANGED timerVars
    /\ UNCHANGED tableVars

\* Close sequence: the wait returns after a signal, the mutex is unlocked and
\* a pending completion is handled.
pocketsphinx_recognizer_run_close_complete ==
    /\ w_pc = "close_waiting"
    /\ wake
    /\ mutex = "free"
    /\ wake' = FALSE
    /\ IF complete_event # NoMsg
       THEN \E hyp \in Hyps \cup {NoHyp} :
                pocketsphinx_recognition_complete(complete_event, hyp)
       ELSE UNCHANGED <<inprogress_recog, decoder, stop_response, last_result,
                        sent>>
    /\ w_pc' = "cleanup"
    /\ UNCHANGED <<mutex, request, complete_event, w_request, open_resp,
                   detector, det_events, raised, grammar_id, grammar_table,
                   files, recognition_timeout, partial_result_timeout>>
    /\ UNCHANGED sigVars
    /\ UNCHANGED audioVars
    /\ UNCHANGED demoVars
    /\ UNCHANGED timerVars
    /\ UNCHANGED tableVars

\* Mutant of pocketsphinx_grammars_clear: the table is cleared but the
\* grammar files are left on disk.
grammars_clear_keeps_files(fs, tbl) == fs

\* pocketsphinx_grammars_clear, the files afterwards: the file of every
\* table entry is removed.
pocketsphinx_grammars_clear(fs, tbl) == fs \ tbl

\* Mutant of apr_table_clear: the entries are left in the table.
apr_table_clear_keeps(tbl) == tbl

\* pocketsphinx_grammars_clear, the table afterwards: apr_table_clear
\* removes every entry.
apr_table_clear(tbl) == {}

\* End of pocketsphinx_recognizer_run: clear the grammars, free the decoder
\* and exit the thread.
pocketsphinx_recognizer_run ==
    /\ w_pc = "cleanup"
    /\ files' = pocketsphinx_grammars_clear(files, grammar_table)
    /\ grammar_table' = apr_table_clear(grammar_table)
    /\ decoder' = "null"
    /\ w_pc' = "done"
    /\ UNCHANGED <<mutex, wake, request, complete_event, w_request, sent,
                   open_resp, inprogress_recog, stop_response, detector,
                   det_events, raised, grammar_id, recognition_timeout,
                   partial_result_timeout, last_result>>
    /\ UNCHANGED sigVars
    /\ UNCHANGED audioVars
    /\ UNCHANGED demoVars
    /\ UNCHANGED timerVars
    /\ UNCHANGED tableVars

\* ------------------------------------------------------------ media thread
\* Events mpf_activity_detector_process can return in a detector state:
\* activity is reported once speech starts, inactivity once it ends, and
\* no-input while no speech has started.
detector_events(det) ==
    IF det = "active" THEN {"none", "inactivity"}
    ELSE {"none", "activity", "noinput"}

\* State of the detector after it has returned an event.
detector_next(det, ev) ==
    IF ev = "activity" THEN "active"
    ELSE IF ev = "inactivity" THEN "inactive"
    ELSE det

\* Configured thresholds (pocketsphinx_properties_load), in ms.
properties_recognition_timeout == RecognitionFrames * CODEC_FRAME_TIME_BASE
properties_partial_result_timeout == PartialFrames * CODEC_FRAME_TIME_BASE

\* Mutant of timeout_elapsed: the timer fires once the counter has reached
\* or passed the threshold.
timeout_elapsed_passed(counter, threshold) == counter >= threshold

\* Mutant of timeout_elapsed: the timer never fires.
timeout_elapsed_never(counter, threshold) == FALSE

\* The test that fires a timer: the counter equals the threshold.
timeout_elapsed(counter, threshold) == counter = threshold

\* pocketsphinx_end_of_input up to the lock: the RECOGNITION-COMPLETE event
\* created for the in-progress request with the given completion cause.
end_of_input_event(cause) ==
    mrcp_event_create(inprogress_recog, "RECOGNITION-COMPLETE", "COMPLETE",
                      cause)

\* The record of completions raised, after pocketsphinx_end_of_input was
\* called with the given cause.
end_of_input_raised(cause) ==
    [raised EXCEPT ![inprogress_recog.id] = cause]

\* Mutant of frame_accepted: every frame is processed.
frame_accepted_always == TRUE

\* if(recognizer->inprogress_recog && !recognizer->complete_event): a frame
\* is processed only during a recognition with no completion pending.
frame_accepted == inprogress_recog # NoMsg /\ complete_event = NoMsg

\* The media engine calls pocketsphinx_stream_write with the next frame; a
\* frame that is not accepted returns at once.
pocketsphinx_stream_write_check ==
    /\ a_pc = "idle"
    /\ a_pc' = IF frame_accepted THEN "chk_stop" ELSE "idle"
    /\ UNCHANGED <<a_event, mutex, wake, request, complete_event, w_pc,
                   w_request, sent, open_resp>>
    /\ UNCHANGED sigVars
    /\ UNCHANGED demoVars
    /\ UNCHANGED timerVars
    /\ UNCHANGED tableVars
    /\ UNCHANGED recogVars

\* Mutant of pocketsphinx_stream_write_stop: the pending STOP is not tested
\* and the frame goes on to the decoder.
stream_write_stop_untested ==
    /\ a_pc = "chk_stop"
    /\ a_pc' = "feed"
    /\ UNCHANGED <<a_event, raised>>
    /\ UNCHANGED <<mutex, wake, request, complete_event, w_pc, w_request,
                   sent, open_resp, inprogress_recog, stop_response, decoder,
                   detector, det_events, grammar_id, grammar_table, files,
                   recognition_timeout, partial_result_timeout, last_result>>
    /\ UNCHANGED sigVars
    /\ UNCHANGED demoVars
    /\ UNCHANGED timerVars
    /\ UNCHANGED tableVars

\* if(recognizer->stop_response): a pending STOP ends the input at once.
pocketsphinx_stream_write_stop ==
    /\ a_pc = "chk_stop"
    /\ IF stop_response # NoMsg
       THEN /\ a_event' = end_of_input_event("success")
            /\ raised' = end_of_input_raised("success")
            /\ a_pc' = "eoi_lock"
       ELSE /\ a_event' = a_event
            /\ raised' = raised
            /\ a_pc' = "feed"
    /\ UNCHANGED <<mutex, wake, request, complete_event, w_pc, w_request,
                   sent, open_resp, inprogress_recog, stop_response, decoder,
                   detector, det_events, grammar_id, grammar_table, files,
                   recognition_timeout, partial_result_timeout, last_result>>
    /\ UNCHANGED sigVars
    /\ UNCHANGED demoVars
    /\ UNCHANGED timerVars
    /\ UNCHANGED tableVars

\* Rest of pocketsphinx_stream_write: feed the decoder (a failure is only
\* logged), advance the partial-result timer and poll the hypothesis,
\* advance the recognition timer, then run the activity detector.
\*   hyp : what ps_get_hyp returns if polled on this frame
\*   det : what the activity detector returns for this frame
pocketsphinx_stream_write ==
    /\ a_pc = "feed"
    /\ \E hyp \in Hyps \cup {NoHyp}, det \in detector_events(detector) :
         LET partial == partial_result_timeout + CODEC_FRAME_TIME_BASE
             poll == timeout_elapsed(partial, properties_partial_result_timeout)
             recog == recognition_timeout + CODEC_FRAME_TIME_BASE
             timeout == timeout_elapsed(recog, properties_recognition_timeout)
         IN  /\ partial_result_timeout' = IF poll THEN 0 ELSE partial
             /\ last_result' = IF poll /\ hyp # NoHyp /\ last_result # hyp
                               THEN hyp ELSE last_result
             /\ recognition_timeout' = recog
             /\ IF timeout
                THEN /\ a_event' = end_of_input_event("recognition-timeout")
                     /\ raised' = end_of_input_raised("recognition-timeout")
                     /\ a_pc' = "eoi_lock"
                     /\ UNCHANGED <<detector, det_events, sent>>
                ELSE /\ detector' = detector_next(detector, det)
                     /\ det_events' = detector_recorded(det_events, det)
                     /\ sent' = IF det = "activity"
                                THEN Send(sent,
                                          mrcp_event_create(inprogress_recog,
                                              "START-OF-INPUT", "INPROGRESS",
                                              "none"),
                                          "media")
                                ELSE sent
                     /\ IF det = "inactivity"
                        THEN /\ a_event' = end_of_input_event("success")
                             /\ raised' = end_of_input_raised("success")
                             /\ a_pc' = "eoi_lock"
                        ELSE IF det = "noinput"
                        THEN /\ a_event' = end_of_input_event("no-input-timeout")
                             /\ raised' =
                                    end_of_input_raised("no-input-timeout")
                             /\ a_pc' = "eoi_lock"
                        ELSE /\ a_event' = a_event
                             /\ raised' = raised
                             /\ a_pc' = "idle"
    /\ UNCHANGED <<mutex, wake, request, complete_event, w_pc, w_request,
                   open_resp, inprogress_recog, stop_response, decoder,
                   grammar_id, grammar_table, files>>
    /\ UNCHANGED sigVars
    /\ UNCHANGED demoVars
    /\ UNCHANGED timerVars
    /\ UNCHANGED tableVars

\* pocketsphinx_end_of_input, apr_thread_mutex_lock.
pocketsphinx_end_of_input_lock ==
    /\ a_pc = "eoi_lock"
    /\ mutex = "free"
    /\ mutex' = "media"
    /\ a_pc' = "eoi_signal"
    /\ UNCHANGED <<a_event, wake, request, complete_event, w_pc, w_request,
                   sent, open_resp>>
    /\ UNCHANGED sigVars
    /\ UNCHANGED demoVars
    /\ UNCHANGED timerVars
    /\ UNCHANGED tableVars
    /\ UNCHANGED recogVars

\* Mutant of pocketsphinx_end_of_input: the media thread sends the
\* completion event itself besides storing it.
end_of_input_sends ==
    /\ a_pc = "eoi_signal"
    /\ complete_event' = a_event
    /\ sent' = Send(sent, a_event, "media")
    /\ wake' = Signal
    /\ mutex' = "free"
    /\ a_pc' = "idle"
    /\ a_event' = NoMsg
    /\ det_events' = <<>>
    /\ UNCHANGED <<request, w_pc, w_request, open_resp,
                   inprogress_recog, stop_response, decoder, detector, raised,
                   grammar_id, grammar_table, files, recognition_timeout,
                   partial_result_timeout, last_result>>
    /\ UNCHANGED sigVars
    /\ UNCHANGED demoVars
    /\ UNCHANGED timerVars
    /\ UNCHANGED tableVars

\* pocketsphinx_end_of_input: fill the completion-event slot, signal the
\* recognition thread and unlock.
pocketsphinx_end_of_input ==
    /\ a_pc = "eoi_signal"
    /\ complete_event' = a_event
    /\ wake' = Signal
    /\ mutex' = "free"
    /\ a_pc' = "idle"
    /\ a_event' = NoMsg
    /\ det_events' = <<>>
    /\ UNCHANGED <<request, w_pc, w_request, sent, open_resp,
                   inprogress_recog, stop_response, decoder, detector, raised,
                   grammar_id, grammar_table, files, recognition_timeout,
                   partial_result_timeout, last_result>>
    /\ UNCHANGED sigVars
    /\ UNCHANGED demoVars
    /\ UNCHANGED timerVars
    /\ UNCHANGED tableVars

\* ------------------------------------------------------- specification
\* Steps of the signaling thread.
Signaling ==
    \/ pocketsphinx_recognizer_open
    \/ pocketsphinx_recognizer_request_process_lock
    \/ pocketsphinx_recognizer_request_process
    \/ pocketsphinx_recognizer_close_nothread
    \/ pocketsphinx_recognizer_close_lock
    \/ pocketsphinx_recognizer_close_signal
    \/ pocketsphinx_recognizer_close

\* Steps of the recognition thread.
Worker ==
    \/ pocketsphinx_recognizer_run_start
    \/ pocketsphinx_recognizer_run_lock
    \/ pocketsphinx_recognizer_run_wait
    \/ pocketsphinx_recognizer_run_wake
    \/ pocketsphinx_recognizer_run_check_request
    \/ pocketsphinx_recognizer_run_clear_request
    \/ pocketsphinx_request_dispatch
    \/ pocketsphinx_request_dispatch_define
    \/ pocketsphinx_stop
    \/ pocketsphinx_recognize_start
    \/ pocketsphinx_recognize_respond
    \/ pocketsphinx_recognize_reset
    \/ pocketsphinx_recognize
    \/ pocketsphinx_recognizer_run_complete
    \/ pocketsphinx_recognizer_run_check_close
    \/ pocketsphinx_recognizer_run_close_lock
    \/ pocketsphinx_recognizer_run_close_wait
    \/ pocketsphinx_recognizer_run_close_complete
    \/ pocketsphinx_recognizer_run

\* Steps of the media thread.
Media ==
    \/ pocketsphinx_stream_write_check
    \/ pocketsphinx_stream_write_stop
    \/ pocketsphinx_stream_write
    \/ pocketsphinx_end_of_input_lock
    \/ pocketsphinx_end_of_input

Next == Signaling \/ Worker \/ Media

Spec == Init /\ [][Next]_vars

\* The recognition thread and the media thread are scheduled fairly, frames
\* keep arriving, and a call of the signaling thread that has started runs to
\* its end.  Whether the client sends a further request or closes the channel
\* is left open.
Fairness ==
    /\ WF_vars(Worker)
    /\ WF_vars(Media)
    /\ WF_vars(pocketsphinx_recognizer_request_process)
    /\ WF_vars(pocketsphinx_recognizer_close_signal)
    /\ WF_vars(pocketsphinx_recognizer_close)

FairSpec == Spec /\ Fairness

\* ------------------------------------------------- demo recognizer channel
\* The demo recognizer plugin (src/unnamed/part_001).  The signaling thread
\* queues a message for the consumer task of the engine on every call; the
\* task thread dispatches the requests; the media thread calls
\* demo_recog_stream_write once per frame.  The channel fields are read and
\* written by the task thread and by the media thread without any lock, so a
\* step below is one read or one write of a channel field, or one message
\* sent.  Where the media thread reads a field twice with no call in between
\* that forces the second read, the second read yields the earlier or the
\* current value.

\* A message of the consumer task (demo_recog_msg_t).
demo_recog_msg(type, req) == [type |-> type, request |-> req]

\* demo_recog_msg_signal: the message is appended to the queue of the task.
demo_recog_msg_signal(queue, type, req) ==
    Append(queue, demo_recog_msg(type, req))

\* The requests a client can send to the demo channel with identifier id.
DemoRequests(id) ==
    {Request(id, m, FALSE, NoStr, FALSE, NoType) : m \in ClientMethods}

\* The client has a response (final or in-progress) to request id.
DemoAnswered(id) == demo_sent.responses[id] > 0

\* The client sends one request at a time: a further request only when the
\* previous one has a response.
DemoMayRequest ==
    /\ demo_pc = "opened"
    /\ demo_open_resp > 0
    /\ demo_nreq < MaxRequests
    /\ demo_nreq > 0 => DemoAnswered(demo_nreq)

\* Variables of the signaling thread of the demo channel.
demoSigVars == <<demo_pc, demo_nreq>>

\* Variables of the task thread that the other threads do not touch.
demoTaskVars == <<task_pc, task_request>>

\* Fields of demo_recog_channel_t.
demoChannelVars ==
    <<recog_request, demo_stop_response, start_of_input, time_to_complete,
      audio_out>>

\* Variables of the media thread of the demo channel.
demoWriteVars ==
    <<write_pc, write_audio, write_stop, write_request, write_time,
      write_event>>

\* Variables of the PocketSphinx channel.
pocketsphinxVars ==
    <<s_pc, nreq, thread, prims, mutex, wake, request, complete_event,
      inprogress_recog, stop_response, close_requested, decoder, detector,
      det_events, raised, grammar_id, grammar_table, files,
      recognition_timeout, partial_result_timeout, last_result, w_pc,
      w_request, a_pc, a_event, sent, open_resp, close_resp, close_recog>>

\* demo_recog_channel_open: line 210.
demo_recog_channel_open ==
    /\ demo_pc = "created"
    /\ demo_pc' = "opened"
    /\ task_queue' = demo_recog_msg_signal(task_queue, "OPEN_CHANNEL", NoMsg)
    /\ UNCHANGED <<demo_nreq, demo_sent, demo_open_resp, demo_close_resp,
                   stop_dispatched>>
    /\ UNCHANGED <<demoTaskVars, demoChannelVars, demoWriteVars>>
    /\ UNCHANGED pocketsphinxVars
    /\ UNCHANGED timerVars
    /\ UNCHANGED tableVars

\* demo_recog_channel_request_process: line 222.
demo_recog_channel_request_process ==
    /\ DemoMayRequest
    /\ \E req \in DemoRequests(demo_nreq + 1) :
         task_queue' =
             demo_recog_msg_signal(task_queue, "REQUEST_PROCESS", req)
    /\ demo_nreq' = demo_nreq + 1
    /\ UNCHANGED <<demo_pc, demo_sent, demo_open_resp, demo_close_resp,
                   stop_dispatched>>
    /\ UNCHANGED <<demoTaskVars, demoChannelVars, demoWriteVars>>
    /\ UNCHANGED pocketsphinxVars
    /\ UNCHANGED timerVars
    /\ UNCHANGED tableVars

\* demo_recog_channel_close: line 216.
demo_recog_channel_close ==
    /\ demo_pc = "opened"
    /\ demo_open_resp > 0
    /\ demo_pc' = "closed"
    /\ task_queue' = demo_recog_msg_signal(task_queue, "CLOSE_CHANNEL", NoMsg)
    /\ UNCHANGED <<demo_nreq, demo_sent, demo_open_resp, demo_close_resp,
                   stop_dispatched>>
    /\ UNCHANGED <<demoTaskVars, demoChannelVars, demoWriteVars>>
    /\ UNCHANGED pocketsphinxVars
    /\ UNCHANGED timerVars
    /\ UNCHANGED tableVars

\* demo_recog_msg_process, lines 417-435, for the open and the close message.
demo_recog_msg_process ==
    /\ task_pc = "idle"
    /\ task_queue # <<>>
    /\ Head(task_queue).type # "REQUEST_PROCESS"
    /\ task_queue' = Tail(task_queue)
    /\ IF Head(task_queue).type = "OPEN_CHANNEL"
       THEN /\ demo_open_resp' = demo_open_resp + 1
            /\ UNCHANGED demo_close_resp
       ELSE /\ demo_close_resp' = demo_close_resp + 1
            /\ UNCHANGED demo_open_resp
    /\ UNCHANGED <<demo_sent, stop_dispatched>>
    /\ UNCHANGED <<demoSigVars, demoTaskVars, demoChannelVars, demoWriteVars>>
    /\ UNCHANGED pocketsphinxVars
    /\ UNCHANGED timerVars
    /\ UNCHANGED tableVars

\* demo_recog_msg_process for a request message (line 429) and
\* demo_recog_channel_request_dispatch, lines 259-288: the response is
\* created; RECOGNIZE and STOP go to their handlers, every other method is
\* answered at once with the response as created (line 285).
demo_recog_channel_request_dispatch ==
    /\ task_pc = "idle"
    /\ task_queue # <<>>
    /\ Head(task_queue).type = "REQUEST_PROCESS"
    /\ task_queue' = Tail(task_queue)
    /\ LET req == Head(task_queue).request
       IN  IF req.method = "RECOGNIZE"
           THEN /\ task_pc' = "recognize"
                /\ task_request' = req
                /\ UNCHANGED demo_sent
           ELSE IF req.method = "STOP"
           THEN /\ task_pc' = "stop"
                /\ task_request' = req
                /\ UNCHANGED demo_sent
           ELSE /\ demo_sent' =
                       Send(demo_sent, mrcp_response_create(req), "task")
                /\ UNCHANGED <<task_pc, task_request>>
    /\ UNCHANGED <<demo_open_resp, demo_close_resp, stop_dispatched>>
    /\ UNCHANGED <<demoSigVars, demoChannelVars, demoWriteVars>>
    /\ UNCHANGED pocketsphinxVars
    /\ UNCHANGED timerVars
    /\ UNCHANGED tableVars

\* demo_recog_channel_recognize, line 230: start_of_input = FALSE.
demo_recog_channel_recognize_start ==
    /\ task_pc = "recognize"
    /\ start_of_input' = FALSE
    /\ task_pc' = "recognize_time"
    /\ UNCHANGED <<task_request, task_queue, recog_request,
                   demo_stop_response, time_to_complete, audio_out,
                   demo_sent, demo_open_resp, demo_close_resp,
                   stop_dispatched>>
    /\ UNCHANGED <<demoSigVars, demoWriteVars>>
    /\ UNCHANGED pocketsphinxVars
    /\ UNCHANGED timerVars
    /\ UNCHANGED tableVars

\* demo_recog_channel_recognize, line 231: time_to_complete = 5000.
demo_recog_channel_recognize_time ==
    /\ task_pc = "recognize_time"
    /\ time_to_complete' = TimeToComplete
    /\ task_pc' = "recognize_respond"
    /\ UNCHANGED <<task_request, task_queue, recog_request,
                   demo_stop_response, start_of_input, audio_out,
                   demo_sent, demo_open_resp, demo_close_resp,
                   stop_dispatched>>
    /\ UNCHANGED <<demoSigVars, demoWriteVars>>
    /\ UNCHANGED pocketsphinxVars
    /\ UNCHANGED timerVars
    /\ UNCHANGED tableVars

\* demo_recog_channel_recognize, lines 233-243: the utterance file is opened
\* if it is not open yet (fopen may fail) and the in-progress response is
\* sent.
demo_recog_channel_recognize_respond ==
    /\ task_pc = "recognize_respond"
    /\ IF audio_out THEN UNCHANGED audio_out ELSE audio_out' \in BOOLEAN
    /\ demo_sent' =
           Send(demo_sent,
                [mrcp_response_create(task_request)
                     EXCEPT !.state = "INPROGRESS"],
                "task")
    /\ task_pc' = "recognize_store"
    /\ UNCHANGED <<task_request, task_queue, recog_request,
                   demo_stop_response, start_of_input, time_to_complete,
                   demo_open_resp, demo_close_resp, stop_dispatched>>
    /\ UNCHANGED <<demoSigVars, demoWriteVars>>
    /\ UNCHANGED pocketsphinxVars
    /\ UNCHANGED timerVars
    /\ UNCHANGED tableVars

\* demo_recog_channel_recognize, line 244: recog_request = request.
demo_recog_channel_recognize ==
    /\ task_pc = "recognize_store"
    /\ recog_request' = task_request
    /\ task_pc' = "idle"
    /\ task_request' = NoMsg
    /\ UNCHANGED <<task_queue, demo_stop_response, start_of_input,
                   time_to_complete, audio_out, demo_sent, demo_open_resp,
                   demo_close_resp, stop_dispatched>>
    /\ UNCHANGED <<demoSigVars, demoWriteVars>>
    /\ UNCHANGED pocketsphinxVars
    /\ UNCHANGED timerVars
    /\ UNCHANGED tableVars

\* stop_dispatched after a STOP was stored while 'recog' was recog_request.
stop_dispatched_for(recog) ==
    IF recog = NoMsg
    THEN stop_dispatched
    ELSE [stop_dispatched EXCEPT ![recog.id] = TRUE]

\* demo_recog_channel_stop, line 254: stop_response = response.
demo_recog_channel_stop ==
    /\ task_pc = "stop"
    /\ demo_stop_response' = mrcp_response_create(task_request)
    /\ stop_dispatched' = stop_dispatched_for(recog_request)
    /\ task_pc' = "idle"
    /\ task_request' = NoMsg
    /\ UNCHANGED <<task_queue, recog_request, start_of_input,
                   time_to_complete, audio_out, demo_sent, demo_open_resp,
                   demo_close_resp>>
    /\ UNCHANGED <<demoSigVars, demoWriteVars>>
    /\ UNCHANGED pocketsphinxVars
    /\ UNCHANGED timerVars
    /\ UNCHANGED tableVars

\* The content of result.xml as read into the body of the event.
DemoResult == <<"result.xml">>

\* The value a second read of a field yields when 'cached' was read before
\* and no call in between forces the read: the earlier or the current value.
\* NoMsg as 'cached' stands for no earlier read.
Reread(cached, current) ==
    IF cached = NoMsg THEN {current} ELSE {cached, current} \ {NoMsg}

\* demo_recog_stream_write, line 312: a frame arrives and stop_response is
\* tested.
demo_recog_stream_write ==
    /\ write_pc = "idle"
    /\ demo_open_resp > 0
    /\ demo_close_resp = 0
    /\ write_audio' \in BOOLEAN
    /\ write_stop' = demo_stop_response
    /\ write_pc' = IF demo_stop_response # NoMsg THEN "stop" ELSE "request"
    /\ UNCHANGED <<write_request, write_time, write_event, task_queue,
                   demo_sent, demo_open_resp, demo_close_resp,
                   stop_dispatched>>
    /\ UNCHANGED <<demoSigVars, demoTaskVars, demoChannelVars>>
    /\ UNCHANGED pocketsphinxVars
    /\ UNCHANGED timerVars
    /\ UNCHANGED tableVars

\* demo_recog_stream_write, line 314: the pending STOP response is sent.
demo_recog_stream_write_stop ==
    /\ write_pc = "stop"
    /\ \E response \in Reread(write_stop, demo_stop_response) :
         demo_sent' = Send(demo_sent, response, "media")
    /\ write_stop' = NoMsg
    /\ write_pc' = "stop_clear"
    /\ UNCHANGED <<write_audio, write_request, write_time, write_event,
                   task_queue, demo_open_resp, demo_close_resp,
                   stop_dispatched>>
    /\ UNCHANGED <<demoSigVars, demoTaskVars, demoChannelVars>>
    /\ UNCHANGED pocketsphinxVars
    /\ UNCHANGED timerVars
    /\ UNCHANGED tableVars

\* demo_recog_stream_write, line 315: stop_response = NULL.
demo_recog_stream_write_stop_clear ==
    /\ write_pc = "stop_clear"
    /\ demo_stop_response' = NoMsg
    /\ write_pc' = "request_clear"
    /\ UNCHANGED <<recog_request, start_of_input, time_to_complete,
                   audio_out, write_audio, write_stop, write_request,
                   write_time, write_event, task_queue, demo_sent,
                   demo_open_resp, demo_close_resp, stop_dispatched>>
    /\ UNCHANGED <<demoSigVars, demoTaskVars>>
    /\ UNCHANGED pocketsphinxVars
    /\ UNCHANGED timerVars
    /\ UNCHANGED tableVars

\* demo_recog_stream_write, lines 316-317: recog_request = NULL, return.
demo_recog_stream_write_request_clear ==
    /\ write_pc = "request_clear"
    /\ recog_request' = NoMsg
    /\ write_pc' = "idle"
    /\ write_audio' = FALSE
    /\ UNCHANGED <<demo_stop_response, start_of_input, time_to_complete,
                   audio_out, write_stop, write_request, write_time,
                   write_event, task_queue, demo_sent, demo_open_resp,
                   demo_close_resp, stop_dispatched>>
    /\ UNCHANGED <<demoSigVars, demoTaskVars>>
    /\ UNCHANGED pocketsphinxVars
    /\ UNCHANGED timerVars
    /\ UNCHANGED tableVars

\* demo_recog_stream_write, lines 320-325: recog_request is tested; an audio
\* frame is written to the utterance file if the file is open (fwrite is a
\* call, after it the fields are read again).
demo_recog_stream_write_request ==
    /\ write_pc = "request"
    /\ IF recog_request = NoMsg
       THEN /\ write_pc' = "idle"
            /\ write_audio' = FALSE
            /\ UNCHANGED write_request
       ELSE /\ write_pc' = IF write_audio THEN "input" ELSE "time"
            /\ write_request' =
                   IF write_audio /\ audio_out THEN NoMsg ELSE recog_request
            /\ UNCHANGED write_audio
    /\ UNCHANGED <<write_stop, write_time, write_event, task_queue,
                   demo_sent, demo_open_resp, demo_close_resp,
                   stop_dispatched>>
    /\ UNCHANGED <<demoSigVars, demoTaskVars, demoChannelVars>>
    /\ UNCHANGED pocketsphinxVars
    /\ UNCHANGED timerVars
    /\ UNCHANGED tableVars

\* demo_recog_stream_write, line 327: start_of_input is tested.
demo_recog_stream_write_input ==
    /\ write_pc = "input"
    /\ write_pc' = IF start_of_input = FALSE THEN "start_of_input" ELSE "time"
    /\ UNCHANGED <<write_audio, write_stop, write_request, write_time,
                   write_event, task_queue, demo_sent, demo_open_resp,
                   demo_close_resp, stop_dispatched>>
    /\ UNCHANGED <<demoSigVars, demoTaskVars, demoChannelVars>>
    /\ UNCHANGED pocketsphinxVars
    /\ UNCHANGED timerVars
    /\ UNCHANGED tableVars

\* demo_recog_stream_write, lines 329-337: the START-OF-INPUT event of
\* recog_request is created and sent.
demo_recog_stream_write_start_of_input ==
    /\ write_pc = "start_of_input"
    /\ \E req \in Reread(write_request, recog_request) :
         demo_sent' =
             Send(demo_sent,
                  mrcp_event_create(req, "START-OF-INPUT", "INPROGRESS",
                                    "none"),
                  "media")
    /\ write_request' = NoMsg
    /\ write_pc' = "input_set"
    /\ UNCHANGED <<write_audio, write_stop, write_time, write_event,
                   task_queue, demo_open_resp, demo_close_resp,
                   stop_dispatched>>
    /\ UNCHANGED <<demoSigVars, demoTaskVars, demoChannelVars>>
    /\ UNCHANGED pocketsphinxVars
    /\ UNCHANGED timerVars
    /\ UNCHANGED tableVars

\* Line 339 left out: start_of_input stays as it was.
input_set_forgotten ==
    /\ write_pc = "input_set"
    /\ write_pc' = "time"
    /\ UNCHANGED <<start_of_input, recog_request, demo_stop_response,
                   time_to_complete, audio_out, write_audio, write_stop,
                   write_request, write_time, write_event, task_queue,
                   demo_sent, demo_open_resp, demo_close_resp,
                   stop_dispatched>>
    /\ UNCHANGED <<demoSigVars, demoTaskVars>>
    /\ UNCHANGED pocketsphinxVars
    /\ UNCHANGED timerVars
    /\ UNCHANGED tableVars

\* demo_recog_stream_write, line 339: start_of_input = TRUE.
demo_recog_stream_write_input_set ==
    /\ write_pc = "input_set"
    /\ start_of_input' = TRUE
    /\ write_pc' = "time"
    /\ UNCHANGED <<recog_request, demo_stop_response, time_to_complete,
                   audio_out, write_audio, write_stop, write_request,
                   write_time, write_event, task_queue, demo_sent,
                   demo_open_resp, demo_close_resp, stop_dispatched>>
    /\ UNCHANGED <<demoSigVars, demoTaskVars>>
    /\ UNCHANGED pocketsphinxVars
    /\ UNCHANGED timerVars
    /\ UNCHANGED tableVars

\* demo_recog_stream_write, line 343: start_of_input is tested again.
demo_recog_stream_write_time ==
    /\ write_pc = "time"
    /\ IF start_of_input = TRUE
       THEN /\ write_pc' = "time_read"
            /\ UNCHANGED <<write_audio, write_request>>
       ELSE /\ write_pc' = "idle"
            /\ write_audio' = FALSE
            /\ write_request' = NoMsg
    /\ UNCHANGED <<write_stop, write_time, write_event, task_queue,
                   demo_sent, demo_open_resp, demo_close_resp,
                   stop_dispatched>>
    /\ UNCHANGED <<demoSigVars, demoTaskVars, demoChannelVars>>
    /\ UNCHANGED pocketsphinxVars
    /\ UNCHANGED timerVars
    /\ UNCHANGED tableVars

\* demo_recog_stream_write, line 344: time_to_complete is compared with the
\* duration of a frame.
demo_recog_stream_write_time_read ==
    /\ write_pc = "time_read"
    /\ write_time' = time_to_complete
    /\ write_pc' = IF time_to_complete >= CODEC_FRAME_TIME_BASE
                   THEN "count"
                   ELSE "complete"
    /\ UNCHANGED <<write_audio, write_stop, write_request, write_event,
                   task_queue, demo_sent, demo_open_resp, demo_close_resp,
                   stop_dispatched>>
    /\ UNCHANGED <<demoSigVars, demoTaskVars, demoChannelVars>>
    /\ UNCHANGED pocketsphinxVars
    /\ UNCHANGED timerVars
    /\ UNCHANGED tableVars

\* demo_recog_stream_write, line 345: time_to_complete -= CODEC_FRAME_TIME_BASE
\* and return.
demo_recog_stream_write_count ==
    /\ write_pc = "count"
    /\ time_to_complete' \in
           {t - CODEC_FRAME_TIME_BASE : t \in {write_time, time_to_complete}}
    /\ write_pc' = "idle"
    /\ write_audio' = FALSE
    /\ write_request' = NoMsg
    /\ write_time' = 0
    /\ UNCHANGED <<recog_request, demo_stop_response, start_of_input,
                   audio_out, write_stop, write_event, task_queue,
                   demo_sent, demo_open_resp, demo_close_resp,
                   stop_dispatched>>
    /\ UNCHANGED <<demoSigVars, demoTaskVars>>
    /\ UNCHANGED pocketsphinxVars
    /\ UNCHANGED timerVars
    /\ UNCHANGED tableVars

\* demo_recog_stream_write, lines 349-385: the RECOGNITION-COMPLETE event of
\* recog_request is created with cause success; its body is the content of
\* result.xml if that file can be read.
demo_recog_stream_write_complete ==
    /\ write_pc = "complete"
    /\ \E req \in Reread(write_request, recog_request), file \in BOOLEAN :
         LET ev == mrcp_event_create(req, "RECOGNITION-COMPLETE", "COMPLETE",
                                     "success")
         IN  write_event' =
                 IF file
                 THEN [ev EXCEPT !.body = DemoResult, !.ctype = NlsmlType]
                 ELSE ev
    /\ write_pc' = "complete_clear"
    /\ write_request' = NoMsg
    /\ write_time' = 0
    /\ UNCHANGED <<write_audio, write_stop, task_queue, demo_sent,
                   demo_open_resp, demo_close_resp, stop_dispatched>>
    /\ UNCHANGED <<demoSigVars, demoTaskVars, demoChannelVars>>
    /\ UNCHANGED pocketsphinxVars
    /\ UNCHANGED timerVars
    /\ UNCHANGED tableVars

\* demo_recog_stream_write, line 387: recog_request = NULL.
demo_recog_stream_write_complete_clear ==
    /\ write_pc = "complete_clear"
    /\ recog_request' = NoMsg
    /\ write_pc' = "complete_send"
    /\ UNCHANGED <<demo_stop_response, start_of_input, time_to_complete,
                   audio_out, write_audio, write_stop, write_request,
                   write_time, write_event, task_queue, demo_sent,
                   demo_open_resp, demo_close_resp, stop_dispatched>>
    /\ UNCHANGED <<demoSigVars, demoTaskVars>>
    /\ UNCHANGED pocketsphinxVars
    /\ UNCHANGED timerVars
    /\ UNCHANGED tableVars

\* demo_recog_stream_write, line 389: the event is sent.
demo_recog_stream_write_complete_send ==
    /\ write_pc = "complete_send"
    /\ demo_sent' = Send(demo_sent, write_event, "media")
    /\ write_event' = NoMsg
    /\ write_pc' = "idle"
    /\ write_audio' = FALSE
    /\ UNCHANGED <<write_stop, write_request, write_time, task_queue,
                   demo_open_resp, demo_close_resp, stop_dispatched>>
    /\ UNCHANGED <<demoSigVars, demoTaskVars, demoChannelVars>>
    /\ UNCHANGED pocketsphinxVars
    /\ UNCHANGED timerVars
    /\ UNCHANGED tableVars

\* Steps of the signaling thread of the demo channel.
DemoSignaling ==
    \/ demo_recog_channel_open
    \/ demo_recog_channel_request_process
    \/ demo_recog_channel_close

\* Steps of the task thread.
DemoTask ==
    \/ demo_recog_msg_process
    \/ demo_recog_channel_request_dispatch
    \/ demo_recog_channel_recognize_start
    \/ demo_recog_channel_recognize_time
    \/ demo_recog_channel_recognize_respond
    \/ demo_recog_channel_recognize
    \/ demo_recog_channel_stop

\* Steps of the media thread of the demo channel.
DemoMedia ==
    \/ demo_recog_stream_write
    \/ demo_recog_stream_write_stop
    \/ demo_recog_stream_write_stop_clear
    \/ demo_recog_stream_write_request_clear
    \/ demo_recog_stream_write_request
    \/ demo_recog_stream_write_input
    \/ demo_recog_stream_write_start_of_input
    \/ demo_recog_stream_write_input_set
    \/ demo_recog_stream_write_time
    \/ demo_recog_stream_write_time_read
    \/ demo_recog_stream_write_count
    \/ demo_recog_stream_write_complete
    \/ demo_recog_stream_write_complete_clear
    \/ demo_recog_stream_write_complete_send

DemoNext == DemoSignaling \/ DemoTask \/ DemoMedia

DemoSpec == DemoInit /\ [][DemoNext]_vars

\* The task thread and the media thread are scheduled fairly and frames keep
\* arriving while the channel is open.  Whether the client sends a further
\* request or closes the channel is left open.
DemoFairness ==
    /\ WF_vars(DemoTask)
    /\ WF_vars(DemoMedia)

DemoFairSpec == DemoSpec /\ DemoFairness

\* ------------------------------------ demo channel, one RECOGNIZE, no STOP
\* No RECOGNIZE was handed to the channel so far.  Without a STOP a RECOGNIZE
\* that was handed over is in the queue, with the task thread, recorded as
\* recog_request, or had its START-OF-INPUT event sent (line 387 clears
\* recog_request only when start_of_input is set, lines 339-345).
NoRecognizeYet ==
    /\ task_pc = "idle"
    /\ recog_request = NoMsg
    /\ \A i \in 1..Len(task_queue) :
          task_queue[i].type = "REQUEST_PROCESS" =>
              task_queue[i].request.method # "RECOGNIZE"
    /\ \A id \in 1..MaxRequests : demo_sent.soi[id] = 0

\* demo_recog_channel_request_process for a client that sends no STOP and at
\* most one RECOGNIZE.
demo_recog_channel_request_process_quiet ==
    /\ demo_recog_channel_request_process
    /\ LET req == task_queue'[Len(task_queue')].request
       IN  /\ req.method # "STOP"
           /\ req.method = "RECOGNIZE" => NoRecognizeYet

\* The steps of the demo channel with that client: the handling of STOP is
\* never entered.
DemoQuietNext ==
    \/ demo_recog_channel_open
    \/ demo_recog_channel_request_process_quiet
    \/ demo_recog_channel_close
    \/ demo_recog_msg_process
    \/ demo_recog_channel_request_dispatch
    \/ demo_recog_channel_recognize_start
    \/ demo_recog_channel_recognize_time
    \/ demo_recog_channel_recognize_respond
    \/ demo_recog_channel_recognize
    \/ demo_recog_stream_write
    \/ demo_recog_stream_write_request
    \/ demo_recog_stream_write_input
    \/ demo_recog_stream_write_start_of_input
    \/ demo_recog_stream_write_input_set
    \/ demo_recog_stream_write_time
    \/ demo_recog_stream_write_time_read
    \/ demo_recog_stream_write_count
    \/ demo_recog_stream_write_complete
    \/ demo_recog_stream_write_complete_clear
    \/ demo_recog_stream_write_complete_send

DemoQuietSpec == DemoInit /\ [][DemoQuietNext]_vars

\* ------------------------------------------- recognition timer on its own
\* The recognition timer of pocketsphinx_stream_write as a function of the
\* configured threshold: the threshold is any number of ms up to
\* MaxThreshold, the counter starts at zero (pocketsphinx_recognize).
TimerInit ==
    /\ pocketsphinx_engine_recognizer_create
    /\ demo_recog_engine_channel_create
    /\ start_of_input = FALSE
    /\ time_to_complete = 0
    /\ timer_threshold \in 1..MaxThreshold
    /\ timer_elapsed = 0
    /\ timer_raised = FALSE
    /\ string_table_empty

\* One accepted frame, as far as the recognition timer goes: the counter
\* advances by one frame time and the timeout is raised if the test fires.
\* Once the timeout is raised the completion is pending and no further frame
\* is accepted.
recognition_timer ==
    /\ timer_raised = FALSE
    /\ timer_elapsed < MaxTimerFrames * CODEC_FRAME_TIME_BASE
    /\ timer_elapsed' = timer_elapsed + CODEC_FRAME_TIME_BASE
    /\ timer_raised' = timeout_elapsed(timer_elapsed', timer_threshold)
    /\ UNCHANGED timer_threshold
    /\ UNCHANGED pocketsphinxVars
    /\ UNCHANGED demoVars
    /\ UNCHANGED tableVars

TimerSpec == TimerInit /\ [][recognition_timer]_vars

\* ----------------------------------------------------------------- claims
\* The request with identifier id was handed to request_process.
Received(id) == nreq >= id

\* C1: every request handed to pocketsphinx_recognizer_request_process after
\* a successful open eventually has exactly one response, under fair
\* scheduling of the recognition thread and a continuing stream of frames.
C1_EveryRequestAnswered ==
    \A id \in 1..MaxRequests : Received(id) ~> (sent.responses[id] = 1)

\* C2: no request ever has more than one response sent for it.
C2_AtMostOneResponse ==
    \A id \in 1..MaxRequests : sent.responses[id] <= 1

\* C2 witness: a STOP whose response was deferred has just been answered in
\* place of the completion event of the recognition it stopped.
C2_Witness ==
    \E id \in 1..MaxRequests, r \in 1..MaxRequests :
        /\ sent.last.type = "response"
        /\ sent.last.method = "STOP"
        /\ sent.last.id = id
        /\ sent.responses[id] = 1
        /\ sent.stopped[r] = 1

\* A STOP response is pending for the STOP request with identifier id.
StopDeferred(id) ==
    /\ stop_response.type = "response"
    /\ stop_response.id = id

\* C3: a STOP dispatched while a recognition is in progress always yields a
\* STOP response: once the STOP response is deferred it is eventually sent
\* (exactly once), as long as the channel is not closed meanwhile.
C3_DeferredStopAnswered ==
    \A id \in 1..MaxRequests :
        StopDeferred(id) ~> (sent.responses[id] = 1 \/ close_requested)

\* The recognition of request id was answered with an in-progress response.
InProgressAnswered(id) ==
    /\ sent.last.type = "response"
    /\ sent.last.id = id
    /\ sent.last.state = "INPROGRESS"

\* Number of terminal outcomes of the recognition of request id: completion
\* events plus STOP responses sent in place of one.
TerminalOutcomes(id) == sent.rc[id] + sent.stopped[id]

\* C4: every RECOGNIZE answered with an in-progress response produces exactly
\* one terminal outcome, a RECOGNITION-COMPLETE event or a STOP response
\* (stated for a channel that is not closed meanwhile).
C4_OneTerminalOutcome ==
    \A id \in 1..MaxRequests :
        InProgressAnswered(id) ~> (TerminalOutcomes(id) = 1 \/ close_requested)

\* C5: at most one RECOGNIZE is in progress at a time: while a recognition is
\* in progress its marker is only ever cleared, never replaced by another
\* request, and no utterance is started over the active one.
C5_NoSecondRecognize ==
    [][inprogress_recog # NoMsg =>
          /\ inprogress_recog' \in {inprogress_recog, NoMsg}
          /\ ~pocketsphinx_recognize_respond]_vars

\* C6: once pocketsphinx_recognizer_close has been called on an open channel
\* the close response is eventually sent.
C6_CloseAnswered ==
    (s_pc \in {"close_locked", "joining"}) ~> (close_resp = 1)

\* C7: the close response is sent only after the recognition thread has
\* terminated, and when it is sent the grammar registry is empty, every
\* grammar file is removed and the decoder is freed.
C7_CloseAfterCleanup ==
    close_resp >= 1 =>
        /\ close_resp = 1
        /\ w_pc \in {"none", "done"}
        /\ grammar_table = {}
        /\ files = {}
        /\ decoder = "null"

\* C7 witness: the close response was sent on a channel whose recognition
\* thread ran and on which a grammar had been defined.
C7_Witness ==
    /\ close_resp = 1
    /\ w_pc = "done"
    /\ grammar_id # NoStr

\* The channel-open response sent by pocketsphinx_recognizer_run.
WorkerOpenResponse == [status |-> TRUE, by |-> "worker"]
\* The channel-open response sent by pocketsphinx_recognizer_open.
FailedOpenResponse == [status |-> FALSE, by |-> "sig"]

\* C8: opening the channel produces exactly one channel-open response.  When
\* the thread is launched the recognition thread sends it before it first
\* waits; when the launch fails the open call sends a failed response and the
\* recognition thread never runs.
C8_OneOpenResponse ==
    /\ Len(open_resp) <= 1
    /\ w_pc = "start" => open_resp = <<>>
    /\ w_pc \notin {"none", "start"} => open_resp = <<WorkerOpenResponse>>
    /\ (w_pc = "none" /\ s_pc # "created") => open_resp = <<FailedOpenResponse>>

\* C8 witness: the thread launch failed and the open call has answered.
C8_Witness ==
    /\ s_pc = "open"
    /\ w_pc = "none"
    /\ open_resp = <<FailedOpenResponse>>

\* C9: if the mutex or the condition variable cannot be constructed at open
\* time the channel fails to open and the recognition thread is never
\* started: a launched thread always has its primitives.
C9_NoThreadWithoutPrimitives == thread => prims

\* The recognition thread is about to dispatch a DEFINE-GRAMMAR request that
\* has no content-id.
DefineWithoutContentId ==
    /\ w_pc = "dispatch"
    /\ w_request.method = "DEFINE-GRAMMAR"
    /\ w_request.cid = NoStr

\* C10: a DEFINE-GRAMMAR request without a content-id fails with the
\* MissingParameter status in its single response, and the grammar registry,
\* the active grammar id and the decoder are unchanged.
C10_MissingContentId ==
    [][(DefineWithoutContentId /\ w_pc' = "chk_evt") =>
          /\ sent'.last.type = "response"
          /\ sent'.last.id = w_request.id
          /\ sent'.last.status = "MISSING_PARAM"
          /\ sent'.responses[w_request.id] = 1
          /\ UNCHANGED <<grammar_table, files, grammar_id, decoder>>]_vars

\* Sequence t contains sequence m as a contiguous part.
Contains(t, m) ==
    \E i \in 1..Len(t) :
        /\ i + Len(m) - 1 <= Len(t)
        /\ SubSeq(t, i, i + Len(m) - 1) = m

\* The recognition thread is about to dispatch a DEFINE-GRAMMAR request that
\* has a content-id and carries a grammar whose Content-Type is present and
\* does not contain "jsgf".
DefineUnsupportedType ==
    /\ w_pc = "dispatch"
    /\ w_request.method = "DEFINE-GRAMMAR"
    /\ w_request.hdr
    /\ w_request.cid # NoStr
    /\ w_request.body
    /\ w_request.ctype # NoType
    /\ ~Contains(w_request.ctype, JsgfMarker)

\* C11: a DEFINE-GRAMMAR request (with a content-id) that carries a grammar
\* whose content-type does not contain "jsgf" fails with the
\* UnsupportedContentType status in its single response; no grammar file is
\* written and the registry, the active grammar id and the decoder are
\* unchanged.
C11_UnsupportedContentType ==
    [][(DefineUnsupportedType /\ w_pc' = "chk_evt") =>
          /\ sent'.last.type = "response"
          /\ sent'.last.id = w_request.id
          /\ sent'.last.status = "UNSUPPORTED_PARAM_VALUE"
          /\ sent'.responses[w_request.id] = 1
          /\ UNCHANGED <<grammar_table, files, grammar_id, decoder>>]_vars

\* C11 witness: a DEFINE-GRAMMAR was just answered with the
\* UnsupportedContentType status on a channel that has a grammar defined.
C11_Witness ==
    /\ sent.last.type = "response"
    /\ sent.last.method = "DEFINE-GRAMMAR"
    /\ sent.last.status = "UNSUPPORTED_PARAM_VALUE"
    /\ grammar_table # {}
    /\ w_pc = "chk_evt"

\* The frames of the recognition of request id made the detector return
\* none, none, activity, none, inactivity, no timeout was reached and no STOP
\* is pending: the inactivity frame has raised the completion (cause success)
\* and pocketsphinx_end_of_input is about to store it.
PatternCompleted(id) ==
    /\ a_pc \in {"eoi_lock", "eoi_signal"}
    /\ a_event.type = "event"
    /\ a_event.id = id
    /\ a_event.cause = "success"
    /\ det_events = ActivityThenInactivity
    /\ stop_response = NoMsg

\* C12: for a recognition whose frames make the detector return none, none,
\* activity, none, inactivity (no timeout, no STOP), the channel sends exactly
\* one START-OF-INPUT and then exactly one RECOGNITION-COMPLETE raised by the
\* inactivity frame (unless a STOP or a close arrives before it is sent).
C12_ActivityThenInactivity ==
    \A id \in 1..MaxRequests :
        PatternCompleted(id) ~>
            \/ sent.soi[id] = 1 /\ sent.rc[id] = 1
            \/ stop_response # NoMsg
            \/ sent.stopped[id] >= 1
            \/ close_requested

\* The media thread raised the recognition-timeout completion for the
\* recognition of request id.
TimeoutRaised(id) == raised[id] = "recognition-timeout"

\* The media thread takes a step of the processing of a frame it accepted, or
\* accepts a frame.
FrameProcessed ==
    \/ pocketsphinx_stream_write_stop
    \/ pocketsphinx_stream_write
    \/ a_pc' \in {"chk_stop", "feed"} /\ a_pc' # a_pc

\* The frame on which the recognition timer reaches its threshold.
TimeoutFrame ==
    /\ a_pc = "feed"
    /\ recognition_timeout + CODEC_FRAME_TIME_BASE
           = properties_recognition_timeout
    /\ a_pc' # a_pc

\* C13: when the recognition timer reaches its threshold the frame raises a
\* RECOGNITION-COMPLETE with cause recognition-timeout (the detector is not
\* run and nothing else is sent), and afterwards no frame is processed while
\* that request is the in-progress recognition.
C13_TimeoutEndsUtterance ==
    [][/\ TimeoutFrame =>
             /\ a_event'.type = "event"
             /\ a_event'.name = "RECOGNITION-COMPLETE"
             /\ a_event'.id = inprogress_recog.id
             /\ a_event'.cause = "recognition-timeout"
             /\ UNCHANGED <<detector, sent>>
       /\ \A id \in 1..MaxRequests :
             (/\ TimeoutRaised(id)
              /\ inprogress_recog # NoMsg
              /\ inprogress_recog.id = id
              /\ a_pc \notin {"eoi_lock", "eoi_signal"})
                 => ~FrameProcessed]_vars

\* The request slot holds the request with identifier id.
InSlot(id) == request.type = "request" /\ request.id = id

\* The recognition thread is dispatching the request with identifier id.
Dispatching(id) == w_pc = "dispatch" /\ w_request.id = id

\* C14: no request written to the request slot is lost: every request that
\* pocketsphinx_recognizer_request_process stores in the slot is eventually
\* taken and dispatched by the recognition thread.
C14_RequestDispatched ==
    \A id \in 1..MaxRequests : InSlot(id) ~> Dispatching(id)

\* What a decoder call, a registry access or a message send changes.
callVars == <<decoder, detector, grammar_id, grammar_table, files, sent>>

\* C15: the mutex is held only around the slot write and signal (signaling
\* and media thread) and around the condition wait (recognition thread); the
\* steps that take, hold or release it call no decoder function, touch no
\* grammar and send no message.
C15_NoLockAcrossCalls ==
    [][/\ mutex = "worker" => w_pc \in {"condwait", "close_condwait"}
       /\ mutex = "sig" => s_pc \in {"req_locked", "close_locked"}
       /\ mutex = "media" => a_pc = "eoi_signal"
       /\ mutex' # mutex => UNCHANGED callVars
       /\ (mutex = "worker" /\ w_pc' # w_pc) => UNCHANGED callVars
       /\ (mutex = "sig" /\ s_pc' # s_pc) => UNCHANGED callVars
       /\ (mutex = "media" /\ a_pc' # a_pc) => UNCHANGED callVars
       /\ (w_pc = "waiting" /\ w_pc' # w_pc) => UNCHANGED callVars]_vars

\* C15 witness: the media thread holds the mutex to store a completion event
\* while the recognition thread is dispatching a request.
C15_Witness ==
    /\ mutex = "media"
    /\ a_pc = "eoi_signal"
    /\ w_pc = "dispatch"

\* The recognition thread is about to dispatch a RECOGNIZE while there is no
\* decoder or no grammar is defined.
RecognizeWithoutGrammar ==
    /\ w_pc = "dispatch"
    /\ w_request.method = "RECOGNIZE"
    /\ (decoder = "null" \/ grammar_table = {})

\* C16: a RECOGNIZE dispatched while no decoder or grammar is active is
\* answered with the EngineFailure status and no recognition becomes
\* in-progress.
C16_RecognizeNeedsGrammar ==
    [][(RecognizeWithoutGrammar /\ w_pc' # w_pc) =>
          /\ w_pc' = "chk_evt"
          /\ sent'.last.type = "response"
          /\ sent'.last.id = w_request.id
          /\ sent'.last.status = "METHOD_FAILED"
          /\ inprogress_recog' = inprogress_recog]_vars

\* C17: clearing the grammar registry twice in a row is safe: after the
\* first clear the table is empty, and the second clear finds no entry,
\* removes no file and leaves the table empty.
C17_ClearTwice ==
    LET files1 == pocketsphinx_grammars_clear(files, grammar_table)
        table1 == apr_table_clear(grammar_table)
    IN  /\ table1 = {}
        /\ pocketsphinx_grammars_clear(files1, table1) = files1
        /\ apr_table_clear(table1) = {}

\* C17 witness: the registry holds a grammar and the recognition thread is
\* about to clear it at the end of its run.
C17_Witness ==
    /\ w_pc = "cleanup"
    /\ grammar_table # {}
    /\ files # {}

\* The request with identifier id was handed to
\* demo_recog_channel_request_process.
DemoReceived(id) == demo_nreq >= id

\* C18: in the demo channel every request handed to
\* demo_recog_channel_request_process eventually has exactly one response,
\* whatever the sequence of requests, when the task thread is scheduled
\* fairly and frames keep arriving (the channel is not closed).
C18_DemoEveryRequestAnswered ==
    /\ \A id \in 1..MaxRequests :
         DemoReceived(id) ~>
             (demo_sent.responses[id] = 1 \/ demo_pc = "closed")
    /\ [](\A id \in 1..MaxRequests : demo_sent.responses[id] <= 1)

\* C19: in the demo channel a STOP stored by the task thread while a request
\* is recog_request suppresses the RECOGNITION-COMPLETE event of that
\* request: no request has both a STOP dispatched during its recognition and
\* a RECOGNITION-COMPLETE event sent, in any interleaving of the task thread
\* with demo_recog_stream_write.
C19_StopSuppressesComplete ==
    \A id \in 1..MaxRequests :
        stop_dispatched[id] => demo_sent.rc[id] = 0

\* The task thread takes a step of demo_recog_channel_recognize.
DemoRecognizeStep ==
    /\ task_pc \in {"recognize", "recognize_time", "recognize_respond",
                    "recognize_store"}
    /\ task_pc' # task_pc

\* C20: in the demo channel a RECOGNIZE dispatched while another recognition
\* is active (recog_request is set) does not replace recog_request and does
\* not reset start_of_input and time_to_complete, and no request has a second
\* START-OF-INPUT event.
C20_RecognizeWhileActive ==
    /\ [][(DemoRecognizeStep /\ recog_request # NoMsg)
             => UNCHANGED <<recog_request, start_of_input,
                            time_to_complete>>]_vars
    /\ [](\A id \in 1..MaxRequests : demo_sent.soi[id] <= 1)

\* The recognition thread handles a pending completion event:
\* pocketsphinx_recognition_complete is called and returns.
CompletionHandled ==
    /\ \/ w_pc = "chk_evt" /\ w_pc' = "chk_close"
       \/ w_pc = "close_waiting" /\ w_pc' = "cleanup"
    /\ complete_event # NoMsg

\* The recognition thread takes the pending request for dispatch.
RequestTaken == w_pc = "clr_req" /\ w_pc' = "dispatch"

\* C21: both mailbox slots are cleared upon consumption: the completion-event
\* slot is empty once the recognition thread has handled a completion event,
\* and the request slot is empty once a request is taken for dispatch.
C21_SlotsCleared ==
    [][/\ CompletionHandled => complete_event' = NoMsg
       /\ RequestTaken => request' = NoMsg]_vars

\* The recognition thread is blocked in apr_thread_cond_wait.
WorkerBlocked == w_pc \in {"waiting", "close_waiting"}

\* A producer has written the request slot, the completion-event slot or
\* close_requested, the mutex and the condition exist, and the recognition
\* thread runs and is not blocked in the wait.
RequestPending == request # NoMsg /\ prims /\ thread /\ ~WorkerBlocked
CompletionPending ==
    /\ complete_event # NoMsg
    /\ inprogress_recog # NoMsg
    /\ prims
    /\ ~WorkerBlocked
ClosePending ==
    close_requested /\ prims /\ thread /\ ~WorkerBlocked /\ w_pc # "done"

\* C22: the mailbox has no lost wake-up: what a producer wrote and signalled
\* while the recognition thread was not blocked in the wait is eventually
\* processed - the request is taken from its slot, the recognition of the
\* completion event is ended, the thread exits after close_requested.
C22_NoLostWakeup ==
    /\ RequestPending ~> (request = NoMsg)
    /\ CompletionPending ~> (inprogress_recog = NoMsg \/ complete_event = NoMsg)
    /\ ClosePending ~> (w_pc = "done")

\* ------------------------------------------------------------ claim C23
\* The step of pocketsphinx_recognize that records the request as the
\* in-progress recognition: the new utterance starts here.
RecognizeRecorded == w_pc = "recog_record" /\ w_pc' = "chk_evt"

\* No event of a request has been sent before a response to that request.
EventsAfterResponse ==
    \A id \in 1..MaxRequests :
        sent.soi[id] > 0 \/ sent.rc[id] > 0 => sent.responses[id] > 0

\* C23: when an accepted RECOGNIZE is recorded as the in-progress
\* recognition its in-progress response has been sent, and the detector,
\* both timers, last_result and the completion-event slot are in their reset
\* state, so the new utterance starts with zero timers and no pending
\* completion; and no START-OF-INPUT or RECOGNITION-COMPLETE of a request is
\* ever sent before the response to that request.
C23_RecognizeStartsClean ==
    [][/\ RecognizeRecorded =>
            /\ sent.responses[w_request.id] > 0
            /\ sent'.responses[w_request.id] > 0
            /\ detector' = "inactive"
            /\ recognition_timeout' = 0
            /\ partial_result_timeout' = 0
            /\ last_result' = NoStr
            /\ complete_event' = NoMsg
       /\ EventsAfterResponse']_vars

\* ------------------------------------------------------------ claim C24
\* The dispatch of a STOP request while no recognition is in progress.
StopWhileIdle ==
    /\ w_pc = "dispatch" /\ w_pc' # "dispatch"
    /\ w_request.method = "STOP"
    /\ inprogress_recog = NoMsg

\* C24: a STOP dispatched while no recognition is in progress is answered
\* within that dispatch, by the recognition thread and with a complete
\* success response, and the dispatch changes nothing of the channel state:
\* nothing is stored as pending STOP, and the recognition state, both slots
\* and the close flag stay as they were.
C24_StopAnsweredAtOnce ==
    [][StopWhileIdle =>
          /\ sent' = Send(sent, mrcp_response_create(w_request), "worker")
          /\ sent'.last.method = "STOP"
          /\ sent'.last.state = "COMPLETE"
          /\ sent'.last.status = "SUCCESS"
          /\ UNCHANGED recogVars
          /\ UNCHANGED <<request, complete_event, close_requested>>]_vars

\* C24 witness: the last message sent is a STOP response of the recognition
\* thread, no STOP response was ever sent in place of a completion, and the
\* dispatch has just returned with no STOP pending.
C24_StopAnsweredAtOnce_W ==
    /\ w_pc = "chk_evt"
    /\ sent.last.type = "response"
    /\ sent.last.method = "STOP"
    /\ sent.by = "worker"
    /\ \A id \in 1..MaxRequests : sent.stopped[id] = 0
    /\ stop_response = NoMsg
    /\ inprogress_recog = NoMsg

\* ------------------------------------------------------------ claim C25
\* C25: the single stop_response slot holds a pending STOP response only
\* while a recognition is in progress; a pending STOP response leaves the slot
\* only by being released in the step that completes that recognition, never
\* by being overwritten by a later STOP or by the close sequence; and the
\* completion of a recognition leaves no STOP response pending.
C25_DeferredStopKept ==
    [][/\ stop_response' # NoMsg => inprogress_recog' # NoMsg
       /\ stop_response # NoMsg /\ stop_response' # stop_response =>
            /\ stop_response' = NoMsg
            /\ inprogress_recog # NoMsg
            /\ inprogress_recog' = NoMsg
       /\ inprogress_recog # NoMsg /\ inprogress_recog' = NoMsg =>
            stop_response' = NoMsg]_vars

\* ------------------------------------------------------------ claim C26
\* An accepted frame (recognition in progress, no completion pending) is at
\* the test of stop_response while a STOP response is pending.
StopPendingFrame == a_pc = "chk_stop" /\ stop_response # NoMsg

\* What a frame changes when it is processed: the decoder, both timers, the
\* last result, the detector and the messages sent.
frameVars ==
    <<decoder, recognition_timeout, partial_result_timeout, last_result,
      detector, sent>>

\* C26: a frame accepted while a STOP response is pending raises a
\* completion with cause success for the in-progress request and returns:
\* the STOP stays pending until the callback tests it, the callback goes
\* straight to pocketsphinx_end_of_input and not to the decoder, and neither
\* that step nor the steps of pocketsphinx_end_of_input change the decoder,
\* a timer, the last result or the detector, or send a START-OF-INPUT.
C26_StopPendingFrame ==
    [][/\ StopPendingFrame /\ a_pc' = a_pc => stop_response' # NoMsg
       /\ StopPendingFrame /\ a_pc' # a_pc =>
            /\ a_pc' = "eoi_lock"
            /\ a_event' = end_of_input_event("success")
            /\ raised'[inprogress_recog.id] = "success"
            /\ UNCHANGED frameVars
       /\ a_pc \in {"eoi_lock", "eoi_signal"} /\ a_pc' # a_pc =>
            /\ a_pc' \in {"eoi_signal", "idle"}
            /\ UNCHANGED frameVars]_vars

\* C26 witness: a completion with cause success is raised for the
\* in-progress request while a deferred STOP response is pending, no frame
\* of the utterance was processed (both timers are zero) and no
\* START-OF-INPUT was ever sent, so the cause does not come from the
\* detector.
C26_StopPendingFrame_W ==
    /\ a_pc = "eoi_lock"
    /\ stop_response # NoMsg
    /\ stop_response.type = "response"
    /\ inprogress_recog # NoMsg
    /\ a_event.cause = "success"
    /\ a_event.id = inprogress_recog.id
    /\ recognition_timeout = 0
    /\ partial_result_timeout = 0
    /\ \A id \in 1..MaxRequests : sent.soi[id] = 0

\* ------------------------------------------------------------ claim C27
\* The frame on which the recognition timer reaches its threshold is being
\* processed.
TimeoutReached ==
    /\ a_pc = "feed"
    /\ recognition_timeout + CODEC_FRAME_TIME_BASE =
           properties_recognition_timeout

\* C27: on the frame on which recognition_timeout reaches the threshold the
\* timeout comes before activity detection: the completion raised for the
\* in-progress request has cause recognition-timeout, the detector is not
\* run (its state and the record of its results stay as they were), and the
\* frame sends no START-OF-INPUT and raises no other cause.
C27_TimeoutBeforeDetector ==
    [][TimeoutReached /\ a_pc' # a_pc =>
          /\ a_pc' = "eoi_lock"
          /\ a_event' = end_of_input_event("recognition-timeout")
          /\ raised'[inprogress_recog.id] = "recognition-timeout"
          /\ recognition_timeout' = properties_recognition_timeout
          /\ UNCHANGED <<detector, det_events, sent>>]_vars

\* C27 witness: the recognition timer stands at the threshold and the
\* completion with cause recognition-timeout is raised, in an utterance in
\* which speech had started (the detector is active, so an inactivity could
\* have been detected on that frame).
C27_TimeoutBeforeDetector_W ==
    /\ a_pc = "eoi_lock"
    /\ a_event.cause = "recognition-timeout"
    /\ recognition_timeout = properties_recognition_timeout
    /\ detector = "active"

\* ------------------------------------------------------------ claim C28
\* C28: the recognition timeout is raised only on a frame on which the
\* accumulated recognition_timeout equals the configured threshold; with a
\* threshold that is not a multiple of CODEC_FRAME_TIME_BASE it is never
\* raised, however far the counter goes past the threshold.
C28_TimeoutOnEquality ==
    /\ timer_raised => timer_elapsed = timer_threshold
    /\ timer_threshold % CODEC_FRAME_TIME_BASE # 0 => ~timer_raised
    /\ timer_threshold % CODEC_FRAME_TIME_BASE = 0
         /\ timer_elapsed >= timer_threshold => timer_raised

\* C28 witness: the threshold is not a multiple of the frame time, the
\* counter has gone past it and no timeout was raised.
C28_TimeoutOnEquality_W ==
    /\ timer_threshold % CODEC_FRAME_TIME_BASE # 0
    /\ timer_elapsed > timer_threshold
    /\ ~timer_raised

\* ------------------------------------------------------------ claim C29
\* A step of the media thread (only the media thread moves a_pc).
MediaStep == a_pc' # a_pc

\* The message is a START-OF-INPUT event.
IsStartOfInput(msg) == msg.type = "event" /\ msg.name = "START-OF-INPUT"

\* C29: the only message the media thread sends is START-OF-INPUT; every
\* response and every RECOGNITION-COMPLETE is sent by a step of the
\* recognition thread; and the media thread reports an outcome only by
\* raising it towards pocketsphinx_end_of_input, which stores the event in
\* the completion-event slot and sends nothing.
C29_MediaSendsOnlyStartOfInput ==
    [][/\ MediaStep /\ sent' # sent =>
            /\ IsStartOfInput(sent'.last)
            /\ sent'.by = "media"
       /\ sent' # sent /\ ~IsStartOfInput(sent'.last) =>
            /\ sent'.by = "worker"
            /\ w_pc' # w_pc
            /\ ~MediaStep
       /\ raised' # raised =>
            /\ a_pc' = "eoi_lock"
            /\ a_event' # NoMsg
            /\ sent' = sent
       /\ a_pc = "eoi_signal" /\ MediaStep =>
            /\ complete_event' = a_event
            /\ sent' = sent]_vars

\* C29 witness: the last message sent is the RECOGNITION-COMPLETE of a
\* request, sent by the recognition thread, after the media thread had sent
\* the START-OF-INPUT of that request and raised the outcome.
C29_MediaSendsOnlyStartOfInput_W ==
    /\ sent.last.type = "event"
    /\ sent.last.name = "RECOGNITION-COMPLETE"
    /\ sent.by = "worker"
    /\ sent.soi[sent.last.id] > 0
    /\ raised[sent.last.id] = "success"

\* ------------------------------------------------------------ claim C30
\* The media thread is between two frames and the next frame will not be
\* accepted: no recognition is in progress or a completion is pending.
FrameRejected ==
    /\ a_pc = "idle"
    /\ inprogress_recog = NoMsg \/ complete_event # NoMsg

\* C30: a frame that arrives while no recognition is in progress or while a
\* completion event is pending does nothing: the callback does not go on to
\* process it, nothing is raised, nothing is sent by the media thread, and a
\* step that is not a step of the signaling or of the recognition thread
\* leaves every variable as it was.
C30_RejectedFrame ==
    [][FrameRejected =>
          /\ a_pc' = "idle"
          /\ a_event' = a_event
          /\ raised' = raised
          /\ sent' # sent => sent'.by = "worker"
          /\ s_pc' = s_pc /\ w_pc' = w_pc => UNCHANGED vars]_vars

\* C30 witness: the channel is open, a completion event is pending for the
\* recognition in progress and the media thread is between two frames, so
\* the frames that arrive now are not accepted.
C30_RejectedFrame_W ==
    /\ a_pc = "idle"
    /\ s_pc = "open"
    /\ inprogress_recog # NoMsg
    /\ complete_event # NoMsg
    /\ recognition_timeout > 0

\* ------------------------------------------------------------ claim C31
\* The message is a RECOGNITION-COMPLETE event.
IsRecognitionComplete(msg) ==
    msg.type = "event" /\ msg.name = "RECOGNITION-COMPLETE"

\* Completion causes a RECOGNITION-COMPLETE event of the channel may carry.
CompletionCauses ==
    {"success", "no-match", "no-input-timeout", "recognition-timeout"}

\* C31: every RECOGNITION-COMPLETE event the channel sends carries one of
\* the four completion causes and carries a result document exactly if its
\* cause is success; the document is the NLSML result of the active grammar
\* and of the hypothesis recorded as last_result; a no-match is sent only
\* for a completion raised as success, and any other cause is sent as it was
\* raised.
C31_CompletionCauseAndResult ==
    [][sent' # sent /\ IsRecognitionComplete(sent'.last) =>
          /\ sent'.last.cause \in CompletionCauses
          /\ sent'.last.body # NoBody <=> sent'.last.cause = "success"
          /\ sent'.last.cause = "success" =>
                /\ last_result' \in Hyps
                /\ sent'.last.body = ResultDocument(grammar_id, last_result')
                /\ sent'.last.ctype = NlsmlType
                /\ complete_event.cause = "success"
          /\ sent'.last.cause = "no-match" =>
                /\ complete_event.cause = "success"
                /\ last_result' = last_result
          /\ sent'.last.cause \notin {"success", "no-match"} =>
                sent'.last.cause = complete_event.cause]_vars

\* C31 witness: the last message sent is a RECOGNITION-COMPLETE with cause
\* success that carries the result document of the hypothesis recorded as
\* last_result.
C31_CompletionCauseAndResult_W ==
    /\ IsRecognitionComplete(sent.last)
    /\ sent.last.cause = "success"
    /\ last_result \in Hyps
    /\ sent.last.body = ResultDocument(grammar_id, last_result)
    /\ w_pc = "chk_close"

\* C31 witness of the other case: a completion raised as success was sent
\* as a no-match without a body.
C31_NoMatch_W ==
    /\ IsRecognitionComplete(sent.last)
    /\ sent.last.cause = "no-match"
    /\ sent.last.body = NoBody
    /\ raised[sent.last.id] = "success"

\* ------------------------------------------------------------ claim C32
\* C32: once close_requested is set during a recognition (close_recog is
\* that recognition), the step that completes that recognition sends
\* nothing: neither the RECOGNITION-COMPLETE event nor the STOP response of
\* that recognition goes out, whether the completion is handled in the last
\* iteration of the loop or in the close sequence.
C32_CloseSuppressesSending ==
    [][/\ close_requested
       /\ close_recog # NoMsg
       /\ inprogress_recog = close_recog
       /\ inprogress_recog' = NoMsg
       => sent' = sent]_vars

\* ------------------------------------------------------------ claim C33
\* The dispatch of a DEFINE-GRAMMAR request.
DefineStep ==
    /\ w_pc = "dispatch" /\ w_pc' # "dispatch"
    /\ w_request.method = "DEFINE-GRAMMAR"

\* The DEFINE-GRAMMAR dispatched carried a JSGF grammar and was answered
\* with the method-failed status: the grammar file could not be written or
\* the decoder could not be initialised.
DefineEngineFailure ==
    /\ DefineStep
    /\ w_request.hdr /\ w_request.cid # NoStr /\ w_request.body
    /\ sent'.last.status = "METHOD_FAILED"

\* C33: a DEFINE-GRAMMAR that fails in the decoder initialisation is answered
\* once with the method-failed status, leaves no artifact of a content-id
\* that is not in the registry, and affects nothing else: the registry, the
\* artifacts of the grammars defined before (a prior definition of the same
\* content-id included), the active grammar id, the in-progress recognition
\* and the deferred STOP stay as they were.
C33_FailedDefineRollsBack ==
    [][DefineEngineFailure =>
          /\ sent' = Send(sent,
                          [mrcp_response_create(w_request)
                              EXCEPT !.status = "METHOD_FAILED"], "worker")
          /\ w_request.cid \notin grammar_table => w_request.cid \notin files'
          /\ \A g \in grammar_table : g \in files => g \in files'
          /\ UNCHANGED <<grammar_table, grammar_id, inprogress_recog,
                         stop_response>>]_vars

\* ------------------------------------------------------------ claim C34
\* The DEFINE-GRAMMAR dispatched carried a content-id and a grammar body and
\* was answered with success.
DefineSucceeded ==
    /\ DefineStep
    /\ w_request.hdr /\ w_request.cid # NoStr /\ w_request.body
    /\ sent'.last.status = "SUCCESS"

\* C34: a successful DEFINE-GRAMMAR with a body leaves its content-id mapped
\* to its artifact (one entry for the content-id, the other mappings as they
\* were), makes the content-id the active grammar id and sends the success
\* response within the dispatch; and no DEFINE-GRAMMAR, successful or not,
\* leaves a request in progress: its response is complete and the
\* in-progress recognition is not touched.
C34_DefineRecorded ==
    [][/\ DefineSucceeded =>
            /\ grammar_table' = grammar_table \cup {w_request.cid}
            /\ w_request.cid \in files'
            /\ files' = files \cup {w_request.cid}
            /\ grammar_id' = w_request.cid
            /\ sent' = Send(sent, mrcp_response_create(w_request), "worker")
       /\ DefineStep =>
            /\ sent'.last.type = "response"
            /\ sent'.last.id = w_request.id
            /\ sent'.last.state = "COMPLETE"
            /\ inprogress_recog' = inprogress_recog]_vars

\* C34 witness: the third request was a DEFINE-GRAMMAR answered with success,
\* two content-ids are mapped, each with its artifact, and one of them is the
\* active grammar id.
C34_DefineRecorded_W ==
    /\ w_pc = "chk_evt"
    /\ sent.last.type = "response"
    /\ sent.last.method = "DEFINE-GRAMMAR"
    /\ sent.last.status = "SUCCESS"
    /\ sent.last.id = 3
    /\ grammar_table = ContentIds
    /\ files = grammar_table
    /\ grammar_id \in grammar_table

\* ------------------------------------------------------------ claim C35
\* The DEFINE-GRAMMAR dispatched carried a content-id and no grammar body.
UnloadStep ==
    /\ DefineStep
    /\ w_request.hdr /\ w_request.cid # NoStr /\ ~w_request.body

\* C35: a DEFINE-GRAMMAR with a content-id and no body unloads that grammar:
\* if the content-id is mapped its artifact and its mapping are removed and
\* every other mapping and artifact stays; if it is not mapped the registry
\* and the artifacts stay as they were; either way the success response is
\* sent within the dispatch and the active grammar id and the decoder are
\* not touched.
C35_Unload ==
    [][UnloadStep =>
          /\ IF w_request.cid \in grammar_table
             THEN /\ grammar_table' = grammar_table \ {w_request.cid}
                  /\ files' = files \ {w_request.cid}
             ELSE /\ grammar_table' = grammar_table
                  /\ files' = files
          /\ sent' = Send(sent, mrcp_response_create(w_request), "worker")
          /\ sent'.last.status = "SUCCESS"
          /\ UNCHANGED <<grammar_id, decoder, detector>>]_vars

\* C35 witness: an unload of a mapped content-id was answered with success
\* while another content-id stays mapped with its artifact: the active
\* grammar id is no longer in the registry.
C35_Unload_W ==
    /\ w_pc = "chk_evt"
    /\ sent.last.type = "response"
    /\ sent.last.method = "DEFINE-GRAMMAR"
    /\ sent.last.status = "SUCCESS"
    /\ sent.last.id = 3
    /\ grammar_id \in ContentIds
    /\ grammar_id \notin grammar_table
    /\ grammar_table # {}
    /\ files = grammar_table

\* ------------------------------------------------------------ claim C36
\* The media thread is inside pocketsphinx_stream_write past the test of
\* stop_response: ps_process_raw and ps_get_hyp on the decoder are what it
\* executes next, with no lock held.
MediaUsesDecoder == a_pc = "feed"

\* A step of the recognition thread that calls into the decoder: ps_start_utt
\* of an accepted RECOGNIZE, ps_end_utt of a completion, ps_init or ps_reinit
\* of a DEFINE-GRAMMAR with a grammar that was written, ps_free at the end of
\* the thread.
WorkerUsesDecoder ==
    \/ w_pc = "dispatch" /\ w_pc' = "recog_respond"
    \/ inprogress_recog # NoMsg /\ inprogress_recog' = NoMsg
    \/ DefineSucceeded
    \/ w_pc = "cleanup" /\ w_pc' = "done" /\ decoder # "null"

\* C36: while the media thread is feeding a frame to the decoder or polling
\* it, the recognition thread takes no step that starts or ends an
\* utterance, reinitialises the decoder or frees it.
C36_DecoderNotShared ==
    [][MediaUsesDecoder => ~WorkerUsesDecoder]_vars

\* ------------------------------------------------------------ claim C37
\* The recognition thread is past the close sequence: it clears the grammars
\* and frees the decoder next, or has exited.
WorkerTerminating == w_pc \in {"cleanup", "done"}

DemoStartOfInputSent == write_pc = "start_of_input" /\ write_pc' # write_pc

\* The media thread sends a RECOGNITION-COMPLETE event in this step.
DemoCompleteSent == write_pc = "complete_send" /\ write_pc' # write_pc

C39_RegistryArtifactsExist == \A g \in grammar_table : g \in files

\* ------------------------------------------------- string table generator
\* Characters of the table items.
TableChars == {"a", "b"}

\* The lines string_table_read accepts as items: it stops at an empty line,
\* so an item has at least one character.
TableStrings ==
    UNION {[1..n -> TableChars] : n \in 1..MaxStrLen}

\* string_table_read: up to MaxItems items, each with key 0.
string_table_read ==
    /\ table \in UNION {[1..n -> [value : TableStrings, key : {0}]] :
                            n \in 0..MaxItems}
    /\ gen_i = 1

\* The generator has read a table; the channels are created and not used.
StrTableInit ==
    /\ pocketsphinx_engine_recognizer_create
    /\ demo_recog_engine_channel_create
    /\ start_of_input = FALSE
    /\ time_to_complete = 0
    /\ recognition_timer_create
    /\ string_table_read

\* is_unique with the test i != item_index left out: an item is compared
\* with itself as well.
is_unique_self_compared(tbl, count, item_index, char_index, value) ==
    \A i \in 1..count :
        ~(/\ char_index < Len(tbl[i].value)
          /\ value = tbl[i].value[char_index + 1])

\* is_unique, lines 21-32.  char_index counts from 0 as in the code, items
\* and characters of a sequence count from 1.
is_unique(tbl, count, item_index, char_index, value) ==
    \A i \in 1..count :
        ~(/\ i # item_index
          /\ char_index < Len(tbl[i].value)
          /\ value = tbl[i].value[char_index + 1])

\* The inner loop of string_table_key_generate, lines 39-46, from index j on:
\* the first j with a unique character, the length if the loop runs out.
RECURSIVE item_key(_, _, _)
item_key(tbl, i, j) ==
    IF j >= Len(tbl[i].value)
    THEN Len(tbl[i].value)
    ELSE IF is_unique(tbl, Len(tbl), i, j, tbl[i].value[j + 1])
    THEN j
    ELSE item_key(tbl, i, j + 1)

\* One round of the outer loop of string_table_key_generate, lines 38-47.
string_table_key_generate ==
    /\ gen_i <= Len(table)
    /\ table' = [table EXCEPT ![gen_i].key = item_key(table, gen_i, 0)]
    /\ gen_i' = gen_i + 1
    /\ UNCHANGED pocketsphinxVars
    /\ UNCHANGED demoVars
    /\ UNCHANGED timerVars

StrTableSpec == StrTableInit /\ [][string_table_key_generate]_vars

\* string_table_key_generate run to its end on a table, from item i on.
RECURSIVE key_generate_from(_, _)
key_generate_from(tbl, i) ==
    IF i > Len(tbl)
    THEN tbl
    ELSE key_generate_from([tbl EXCEPT ![i].key = item_key(tbl, i, 0)], i + 1)

\* ------------------------------------------------------------ claim C40
\* string_table_key_generate has returned.
KeysGenerated == gen_i = Len(table) + 1

\* The indexes below the length of item i at which no other item of the
\* table has the character of item i.
UniqueIndexes(tbl, i) ==
    {j \in 0..(Len(tbl[i].value) - 1) :
        \A k \in (1..Len(tbl)) \ {i} :
            \/ j >= Len(tbl[k].value)
            \/ tbl[k].value[j + 1] # tbl[i].value[j + 1]}

\* The key the claim gives item i.
SmallestUniqueIndex(tbl, i) ==
    IF UniqueIndexes(tbl, i) = {}
    THEN Len(tbl[i].value)
    ELSE CHOOSE j \in UniqueIndexes(tbl, i) :
            \A l \in UniqueIndexes(tbl, i) : j <= l

\* The items of a table in the order p.
Reordered(tbl, p) == [k \in 1..Len(tbl) |-> tbl[p[k]]]

\* C40: when string_table_key_generate has returned, the key of every item is
\* the smallest index below its length at which no other item has the same
\* character, or its length when there is no such index, its value is as it
\* was read, and the key of an item is the same for every order of the items
\* in the table.
C40_KeyIsSmallestUniqueIndex ==
    KeysGenerated =>
        /\ \A i \in 1..Len(table) :
              table[i].key = SmallestUniqueIndex(table, i)
        /\ \A p \in Permutations(1..Len(table)) :
              LET generated == key_generate_from(Reordered(table, p), 1)
              IN  \A k \in 1..Len(table) :
                      generated[k].key = table[p[k]].key

\* C40 witness: the generator has returned on a table with an item whose key
\* is neither 0 nor its length, an item whose key is its length, and an item
\* whose key is 0.
C40_KeyIsSmallestUniqueIndex_W ==
    /\ KeysGenerated
    /\ \E i \in 1..Len(table) :
         0 < table[i].key /\ table[i].key < Len(table[i].value)
    /\ \E i \in 1..Len(table) : table[i].key = Len(table[i].value)
    /\ \E i \in 1..Len(table) : table[i].key = 0

====
